---- MODULE Spec2Model ----
(***************************************************************************)
(* Slicing-to-toolpath pipeline of PrusaSlicer (Caribou3d fork).            *)
(*                                                                         *)
(* Part I   - the streaming G-code pipeline GCodeGenerator::process_layers *)
(*            (tbb::parallel_pipeline of serial_in_order filters).         *)
(* Part II  - region resolution slices_to_regions (PrintObjectSlice).      *)
(* Part III - multi-material paint reclassification apply_mm_segmentation. *)
(* Part IV  - the parallel-for loops over Z / layer indices.               *)
(***************************************************************************)
EXTENDS Integers, Sequences, FiniteSets, TLC

VARIABLES
    \* ---- Part I: process_layers ----
    layers_to_print,        \* Layer::id() of every entry of layers_to_print, in print order
    m_spiral_vase,          \* GCodeGenerator::m_spiral_vase is set
    m_pressure_equalizer,   \* GCodeGenerator::m_pressure_equalizer is set
    m_find_replace,         \* GCodeGenerator::m_find_replace is set
    layer_to_print_idx,     \* the counter captured by the input filter
    end_of_input,           \* the input filter called fc.stop()
    inflight,               \* the tokens inside tbb::parallel_pipeline
    next_token,             \* per filter: number of tokens the filter has started
    pe_buffer,              \* the layer the pressure equalizer holds back
    cooling_gcode,          \* the text cached by the cooling buffer (CoolingBuffer::m_gcode)
    gen_out,                \* history: what the generator filter returned, in order
    sv_calls,               \* history: SpiralVase::process_layer calls
    pe_calls,               \* history: PressureEqualizer::process_layer calls
    cool_calls,             \* history: CoolingBuffer::process_layer calls
    output_stream,          \* history: layer texts the output filter started to write
    cancel_requested,       \* Print's cancel status, set by another thread
    ctx_cancelled,          \* a filter threw; the pipeline's task group is cancelled
    pc,                     \* "running" | "returned" | "canceled" : how process_layers left
    \* ---- Parts II-IV: PrintObject::slice_volumes ----
    job,                    \* the part of slice_volumes that runs: "regions" | "paint" | "compensation"
    slice_pc,               \* "shuffle" | "split" | "parallel" | "done"
    model_volumes,          \* ModelObject::volumes, sorted by id
    layer_ranges,           \* PrintObjectRegions::layer_ranges
    volume_slices,          \* the VolumeSlices of slice_volumes_inner
    slices_by_region,       \* slices_to_regions: per region, per height, the polygons
    zs_complex,             \* slices_to_regions: the heights that need clipping
    tasks,                  \* the chunks of the running tbb::parallel_for
    accesses,               \* history: the shared locations each task read or wrote
    m_layers,               \* PrintObject::m_layers: slice_z, slices per region, lslices
    segmentation,           \* multi_material_segmentation_by_painting: per layer, per extruder
    paint_input,            \* history: m_layers and segmentation before the painting
    m_config,               \* PrintObjectConfig: the size compensation settings
    lslices_1st_layer,      \* slice_volumes: the uncompensated slices of the first layer
    eps_initialized,        \* slice_volumes: `static const float eps` has been initialised
    \* ---- Part V: PrintObject::slice ----
    posSlice,               \* the state of the step posSlice: "INVALID" | "STARTED" | "DONE"
    object_layers,          \* generate_object_layers: the slice heights of the object
    painting,               \* ModelObject: the multi-material and the fuzzy skin painting
    nozzle_diameter,        \* PrintConfig::nozzle_diameter.size()
    warnings,               \* the warnings active_step_add_warning recorded
    compensation,           \* the XY offsets the slicing applied
    previous_run,           \* m_layers as the previous run of slice_volumes left them
    \* ---- Part VI: collect_layers_to_print; Part VII: the loops of process_classic ----
    collect,                \* GCodeGenerator::collect_layers_to_print(object) and its caller
    onion,                  \* process_classic: contours, holes and the cursor of the nesting
    \* ---- Part IX: extra perimeters over overhangs ----
    extra,                  \* generate_extra_perimeters_over_overhangs and sort_extra_perimeters
    \* ---- Part X: GCodeGenerator::do_export; Part XI: the loops of the skirt ----
    export,                 \* the step psGCodeExport, the files and the position in do_export
    skirt,                  \* the layer, its extruders and the loops given to each of them
    \* ---- Part XII: one call of traverse_loops_classic ----
    traversal               \* the loops, the collection built from them, the chain, the output

pipeVars == <<layers_to_print, m_spiral_vase, m_pressure_equalizer, m_find_replace,
              layer_to_print_idx, end_of_input, inflight, next_token, pe_buffer,
              cooling_gcode, gen_out, sv_calls, pe_calls, cool_calls, output_stream,
              cancel_requested, ctx_cancelled, pc>>

sliceVars == <<job, slice_pc, model_volumes, layer_ranges, volume_slices, slices_by_region,
               zs_complex, tasks, accesses, m_layers, segmentation, paint_input, m_config,
               lslices_1st_layer, eps_initialized>>

objVars == <<posSlice, object_layers, painting, nozzle_diameter, warnings, compensation,
             previous_run>>

auxVars == <<extra, export, skirt, traversal>>

genVars == <<collect, onion, auxVars>>

vars == <<pipeVars, sliceVars, objVars, genVars>>

\* ------------------------------------------------------------------------
\* Bounds of the model
\* ------------------------------------------------------------------------
MaxLayers == 2
NumCells == 2
NumZ == 2
MaxVolumes == 3
MaxRaisedVolumes == 1
NumExtruders == 2

\* PrintRegionConfig::bottom_solid_layers of the print.
bottom_solid_layers == 1

\* ------------------------------------------------------------------------
\* Part I.  GCodeGenerator::process_layers
\* ------------------------------------------------------------------------

\* tbb::parallel_pipeline(12, ...): the number of tokens in flight.
max_number_of_live_tokens == 12

NOP == "nop"

\* LayerResult::layer_id of the artificial result: std::numeric_limits<coord_t>::max().
\* Any value that is no layer id does.
NopLayerId == -1

\* Layer ids of the entries of layers_to_print: the first object or support layer of
\* the entry. Ids start at 0 and an entry repeats or succeeds the id of the entry below.
LayerIdLists(n) ==
    { s \in [1..n -> 0..(MaxLayers - 1)] :
        /\ n > 0 => s[1] = 0
        /\ \A i \in 1..(n - 1) : s[i + 1] - s[i] \in {0, 1} }

NumLayers == Len(layers_to_print)

\* LayerResult
LayerResult(gcode, layer_id, spiral_vase_enable, cooling_buffer_flush, nop_layer_result) ==
    [gcode |-> gcode, layer_id |-> layer_id, spiral_vase_enable |-> spiral_vase_enable,
     cooling_buffer_flush |-> cooling_buffer_flush, nop_layer_result |-> nop_layer_result]

make_nop_layer_result == LayerResult(<<>>, NopLayerId, FALSE, FALSE, TRUE)

\* The value an input-filter token carries: std::pair<size_t, SmoothPathCache>.
IdxItem(idx) == [gcode |-> <<idx>>, layer_id |-> NopLayerId, spiral_vase_enable |-> FALSE,
                 cooling_buffer_flush |-> FALSE, nop_layer_result |-> FALSE]

\* The value a std::string token carries.
StringItem(s) == [gcode |-> s, layer_id |-> NopLayerId, spiral_vase_enable |-> FALSE,
                  cooling_buffer_flush |-> FALSE, nop_layer_result |-> FALSE]

\* The filter chain as joined by operator& .
Pipeline ==
    <<"smooth_path_interpolator", "generator">>
    \o (IF m_spiral_vase THEN <<"spiral_vase">> ELSE <<>>)
    \o (IF m_pressure_equalizer THEN <<"pressure_equalizer">> ELSE <<>>)
    \o <<"cooling">>
    \o (IF m_find_replace THEN <<"find_replace">> ELSE <<>>)
    \o <<"output">>

AllFilters == {"smooth_path_interpolator", "generator", "spiral_vase", "pressure_equalizer",
               "cooling", "find_replace", "output"}

\* What the body of each filter reads or writes, by its captures: the generator calls
\* this->process_layer and m_wipe_tower->next_layer(); the input filter captures this
\* for the pointer m_pressure_equalizer only; the others hold their own filter object.
FilterAccesses(f) ==
    CASE f = "smooth_path_interpolator" -> {"layer_to_print_idx", "layers_to_print"}
      [] f = "generator" -> {"GCodeGenerator", "layers_to_print"}
      [] f = "spiral_vase" -> {"SpiralVase", "layers_to_print"}
      [] f = "pressure_equalizer" -> {"PressureEqualizer"}
      [] f = "cooling" -> {"CoolingBuffer"}
      [] f = "find_replace" -> {"GCodeFindReplace"}
      [] f = "output" -> {"output_stream"}

\* Variant: the filters made parallel.
FilterMode_parallel(f) == "parallel"

\* Variant: the filters made serial_out_of_order.
FilterMode_serial_out_of_order(f) == "serial_out_of_order"

\* The mode every filter is made with: slic3r_tbb_filtermode::serial_in_order.
FilterMode(f) == "serial_in_order"

\* Variant: the poll that never sees the cancel status.
Canceled_never == FALSE

\* Print::canceled(), the predicate print.throw_if_canceled() polls.
Canceled == cancel_requested

StageOf(f) == CHOOSE i \in 1..Len(Pipeline) : Pipeline[i] = f

HasFilter(f) == \E i \in 1..Len(Pipeline) : Pipeline[i] = f

Busy(f) == \E t \in inflight : t.busy /\ Pipeline[t.stage] = f

\* A token waits at the input of filter f and the pipeline lets f take it now:
\* a serial filter runs one token at a time, an in-order one takes them by number.
CanStart(f, t) ==
    /\ pc = "running"
    /\ ~ctx_cancelled
    /\ HasFilter(f)
    /\ t \in inflight
    /\ ~t.busy
    /\ Pipeline[t.stage] = f
    /\ \/ FilterMode(f) = "parallel"
       \/ /\ FilterMode(f) = "serial_out_of_order"
          /\ ~Busy(f)
       \/ /\ FilterMode(f) = "serial_in_order"
          /\ ~Busy(f)
          /\ t.tok = next_token[f]

\* Filter f takes token t and computes `val` from it.
Take(f, t, val) ==
    /\ inflight' = (inflight \ {t}) \cup {[t EXCEPT !.busy = TRUE, !.val = val]}
    /\ next_token' = [next_token EXCEPT ![f] = @ + 1]

\* A filter throws: the exception cancels the task group, the token is destroyed.
Throw(f, t) ==
    /\ inflight' = inflight \ {t}
    /\ next_token' = [next_token EXCEPT ![f] = @ + 1]
    /\ ctx_cancelled' = TRUE


\* ---- the input filter (smooth_path_interpolator) ----

\* The input filter may be invoked: it is serial, and a new token needs a free slot.
InputReady ==
    /\ pc = "running"
    /\ ~ctx_cancelled
    /\ ~end_of_input
    /\ ~Busy("smooth_path_interpolator")
    /\ Cardinality(inflight) < max_number_of_live_tokens

\* Variant: the input filter stops at the end of layers_to_print, no extra item.
InputStopIdx_no_extra_item == NumLayers

\* Variant: the input filter always feeds one extra item.
InputStopIdx_always_extra_item == NumLayers + 1

\* The index past which the input filter stops the pipeline.
InputStopIdx == NumLayers + (IF m_pressure_equalizer THEN 1 ELSE 0)

NewToken(val) ==
    [tok |-> next_token["smooth_path_interpolator"], stage |-> 1, busy |-> TRUE, val |-> val]

\* layer_to_print_idx >= size and == size + (pe ? 1 : 0): fc.stop().
InterpolatorStop ==
    /\ InputReady
    /\ layer_to_print_idx >= NumLayers
    /\ layer_to_print_idx = InputStopIdx
    /\ end_of_input' = TRUE
    /\ UNCHANGED <<sliceVars, objVars, genVars, layers_to_print, m_spiral_vase, m_pressure_equalizer, m_find_replace,
                   layer_to_print_idx, inflight, next_token, pe_buffer, cooling_gcode,
                   gen_out, sv_calls, pe_calls, cool_calls, output_stream,
                   cancel_requested, ctx_cancelled, pc>>

\* layer_to_print_idx >= size otherwise: the NOP item { layer_to_print_idx ++, {} }.
InterpolatorNop ==
    /\ InputReady
    /\ layer_to_print_idx >= NumLayers
    /\ layer_to_print_idx # InputStopIdx
    /\ inflight' = inflight \cup {NewToken(IdxItem(layer_to_print_idx))}
    /\ next_token' = [next_token EXCEPT !["smooth_path_interpolator"] = @ + 1]
    /\ layer_to_print_idx' = layer_to_print_idx + 1
    /\ UNCHANGED <<sliceVars, objVars, genVars, layers_to_print, m_spiral_vase, m_pressure_equalizer, m_find_replace,
                   end_of_input, pe_buffer, cooling_gcode, gen_out, sv_calls, pe_calls,
                   cool_calls, output_stream, cancel_requested, ctx_cancelled, pc>>

\* A real layer: print.throw_if_canceled(), then idx = layer_to_print_idx ++.
InterpolatorLayer ==
    /\ InputReady
    /\ layer_to_print_idx < NumLayers
    /\ IF Canceled
         THEN /\ ctx_cancelled' = TRUE
              /\ UNCHANGED <<inflight, next_token, layer_to_print_idx>>
         ELSE /\ inflight' = inflight \cup {NewToken(IdxItem(layer_to_print_idx))}
              /\ next_token' = [next_token EXCEPT !["smooth_path_interpolator"] = @ + 1]
              /\ layer_to_print_idx' = layer_to_print_idx + 1
              /\ UNCHANGED ctx_cancelled
    /\ UNCHANGED <<sliceVars, objVars, genVars, layers_to_print, m_spiral_vase, m_pressure_equalizer, m_find_replace,
                   end_of_input, pe_buffer, cooling_gcode, gen_out, sv_calls, pe_calls,
                   cool_calls, output_stream, cancel_requested, pc>>

smooth_path_interpolator == InterpolatorStop \/ InterpolatorNop \/ InterpolatorLayer

\* ---- the generator filter ----

\* Variant of process_layer below: the last layer does not force the cooling buffer
\* to flush.
process_layer_no_flush_on_last(idx, last_layer, object_or_raft) ==
    LayerResult(<<idx>>, layers_to_print[idx + 1],
                m_spiral_vase /\ ~(bottom_solid_layers > layers_to_print[idx + 1]),
                object_or_raft, FALSE)

\* GCodeGenerator::process_layer: the LayerResult of the layer at layers_to_print[idx].
\* The text of the layer is a chunk tagged with idx. The spiral vase logic applies
\* above the bottom solid layers; object_or_raft: the entry holds an object layer or
\* a raft layer.
process_layer(idx, last_layer, object_or_raft) ==
    LET layer_id == layers_to_print[idx + 1] IN
    LayerResult(<<idx>>, layer_id, m_spiral_vase /\ ~(bottom_solid_layers > layer_id),
                object_or_raft \/ last_layer, FALSE)

generator ==
    \E t \in inflight :
        /\ CanStart("generator", t)
        /\ LET idx == t.val.gcode[1] IN
           IF idx = NumLayers
             THEN \* the NOP layer, no poll
                  /\ Take("generator", t, make_nop_layer_result)
                  /\ gen_out' = Append(gen_out, NOP)
                  /\ UNCHANGED ctx_cancelled
             ELSE IF Canceled
               THEN \* print.throw_if_canceled() throws
                    /\ Throw("generator", t)
                    /\ UNCHANGED gen_out
               ELSE \E object_or_raft \in BOOLEAN :
                        /\ Take("generator", t,
                                process_layer(idx, idx = NumLayers - 1, object_or_raft))
                        /\ gen_out' = Append(gen_out, idx)
                        /\ UNCHANGED ctx_cancelled
        /\ UNCHANGED <<sliceVars, objVars, genVars, layers_to_print, m_spiral_vase, m_pressure_equalizer, m_find_replace,
                       layer_to_print_idx, end_of_input, pe_buffer, cooling_gcode,
                       sv_calls, pe_calls, cool_calls, output_stream, cancel_requested, pc>>

\* ---- the spiral vase filter ----

spiral_vase ==
    \E t \in inflight :
        /\ CanStart("spiral_vase", t)
        /\ LET in == t.val IN
           IF in.nop_layer_result
             THEN /\ Take("spiral_vase", t, in)
                  /\ UNCHANGED sv_calls
             ELSE LET last_layer == in.layer_id = NumLayers - 1 IN
                  /\ Take("spiral_vase", t,
                          LayerResult(in.gcode, in.layer_id, in.spiral_vase_enable,
                                      in.cooling_buffer_flush, FALSE))
                  /\ sv_calls' = Append(sv_calls,
                         [gcode |-> in.gcode, layer_id |-> in.layer_id,
                          enable |-> in.spiral_vase_enable, last_layer |-> last_layer])
        /\ UNCHANGED <<sliceVars, objVars, genVars, layers_to_print, m_spiral_vase, m_pressure_equalizer, m_find_replace,
                       layer_to_print_idx, end_of_input, pe_buffer, cooling_gcode,
                       gen_out, pe_calls, cool_calls, output_stream, cancel_requested,
                       ctx_cancelled, pc>>

\* ---- the pressure equalizer filter ----

NoLayer == [none |-> TRUE]

\* PressureEqualizer::process_layer: buffers one layer behind. The first call returns
\* an artificial result, every later call the layer of the call before.
PressureEqualizer_process_layer(buffer, in) ==
    [out |-> IF buffer = NoLayer THEN make_nop_layer_result ELSE buffer, buffer |-> in]

pressure_equalizer ==
    \E t \in inflight :
        /\ CanStart("pressure_equalizer", t)
        /\ LET r == PressureEqualizer_process_layer(pe_buffer, t.val) IN
           /\ Take("pressure_equalizer", t, r.out)
           /\ pe_buffer' = r.buffer
           /\ pe_calls' = Append(pe_calls, t.val)
        /\ UNCHANGED <<sliceVars, objVars, genVars, layers_to_print, m_spiral_vase, m_pressure_equalizer, m_find_replace,
                       layer_to_print_idx, end_of_input, cooling_gcode, gen_out, sv_calls,
                       cool_calls, output_stream, cancel_requested, ctx_cancelled, pc>>

\* ---- the cooling filter ----

\* CoolingBuffer::process_layer: caches the text and returns the cache when flushed.
CoolingBuffer_process_layer(cache, gcode, flush) ==
    [out |-> IF flush THEN cache \o gcode ELSE <<>>,
     cache |-> IF flush THEN <<>> ELSE cache \o gcode]

cooling ==
    \E t \in inflight :
        /\ CanStart("cooling", t)
        /\ LET in == t.val IN
           IF in.nop_layer_result
             THEN /\ Take("cooling", t, StringItem(in.gcode))
                  /\ UNCHANGED <<cooling_gcode, cool_calls>>
             ELSE LET r == CoolingBuffer_process_layer(cooling_gcode, in.gcode,
                                                       in.cooling_buffer_flush) IN
                  /\ Take("cooling", t, StringItem(r.out))
                  /\ cooling_gcode' = r.cache
                  /\ cool_calls' = Append(cool_calls,
                         [gcode |-> in.gcode, layer_id |-> in.layer_id,
                          flush |-> in.cooling_buffer_flush])
        /\ UNCHANGED <<sliceVars, objVars, genVars, layers_to_print, m_spiral_vase, m_pressure_equalizer, m_find_replace,
                       layer_to_print_idx, end_of_input, pe_buffer, gen_out, sv_calls,
                       pe_calls, output_stream, cancel_requested, ctx_cancelled, pc>>

\* ---- the find/replace filter ----

find_replace ==
    \E t \in inflight :
        /\ CanStart("find_replace", t)
        /\ Take("find_replace", t, StringItem(t.val.gcode))
        /\ UNCHANGED <<sliceVars, objVars, genVars, layers_to_print, m_spiral_vase, m_pressure_equalizer, m_find_replace,
                       layer_to_print_idx, end_of_input, pe_buffer, cooling_gcode, gen_out,
                       sv_calls, pe_calls, cool_calls, output_stream, cancel_requested,
                       ctx_cancelled, pc>>

\* ---- the output filter ----

output ==
    \E t \in inflight :
        /\ CanStart("output", t)
        /\ Take("output", t, t.val)
        /\ output_stream' = output_stream \o t.val.gcode
        /\ UNCHANGED <<sliceVars, objVars, genVars, layers_to_print, m_spiral_vase, m_pressure_equalizer, m_find_replace,
                       layer_to_print_idx, end_of_input, pe_buffer, cooling_gcode, gen_out,
                       sv_calls, pe_calls, cool_calls, cancel_requested, ctx_cancelled, pc>>

\* ---- tbb::parallel_pipeline ----

\* A filter invocation returns: the token moves to the next filter, or leaves the
\* pipeline after the last one. An invocation that runs when the group is cancelled
\* still returns.
FilterReturn ==
    \E t \in inflight :
        /\ pc = "running"
        /\ t.busy
        /\ inflight' = IF t.stage = Len(Pipeline)
                         THEN inflight \ {t}
                         ELSE (inflight \ {t}) \cup
                              {[t EXCEPT !.busy = FALSE, !.stage = @ + 1]}
        /\ UNCHANGED <<sliceVars, objVars, genVars, layers_to_print, m_spiral_vase, m_pressure_equalizer, m_find_replace,
                       layer_to_print_idx, end_of_input, next_token, pe_buffer,
                       cooling_gcode, gen_out, sv_calls, pe_calls, cool_calls,
                       output_stream, cancel_requested, ctx_cancelled, pc>>

\* parallel_pipeline returns: the input ended and every token left the pipeline.
PipelineReturn ==
    /\ pc = "running"
    /\ ~ctx_cancelled
    /\ end_of_input
    /\ inflight = {}
    /\ pc' = "returned"
    /\ UNCHANGED <<sliceVars, objVars, genVars, layers_to_print, m_spiral_vase, m_pressure_equalizer, m_find_replace,
                   layer_to_print_idx, end_of_input, inflight, next_token, pe_buffer,
                   cooling_gcode, gen_out, sv_calls, pe_calls, cool_calls, output_stream,
                   cancel_requested, ctx_cancelled>>

\* parallel_pipeline rethrows the captured exception once the running invocations
\* have returned; the waiting tokens are destroyed.
PipelineRethrow ==
    /\ pc = "running"
    /\ ctx_cancelled
    /\ \A t \in inflight : ~t.busy
    /\ pc' = "canceled"
    /\ inflight' = {}
    /\ UNCHANGED <<sliceVars, objVars, genVars, layers_to_print, m_spiral_vase, m_pressure_equalizer, m_find_replace,
                   layer_to_print_idx, end_of_input, next_token, pe_buffer,
                   cooling_gcode, gen_out, sv_calls, pe_calls, cool_calls, output_stream,
                   cancel_requested, ctx_cancelled>>

\* Another thread cancels the print: Print::canceled() turns true.
RequestCancel ==
    /\ pc = "running"
    /\ ~cancel_requested
    /\ cancel_requested' = TRUE
    /\ UNCHANGED <<sliceVars, objVars, genVars, layers_to_print, m_spiral_vase, m_pressure_equalizer, m_find_replace,
                   layer_to_print_idx, end_of_input, inflight, next_token, pe_buffer,
                   cooling_gcode, gen_out, sv_calls, pe_calls, cool_calls, output_stream,
                   ctx_cancelled, pc>>

PipeInit ==
    /\ \E n \in 0..MaxLayers : layers_to_print \in LayerIdLists(n)
    /\ m_spiral_vase \in BOOLEAN
    /\ m_pressure_equalizer \in BOOLEAN
    /\ m_find_replace \in BOOLEAN
    /\ layer_to_print_idx = 0
    /\ end_of_input = FALSE
    /\ inflight = {}
    /\ next_token = [f \in AllFilters |-> 0]
    /\ pe_buffer = NoLayer
    /\ cooling_gcode = <<>>
    /\ gen_out = <<>>
    /\ sv_calls = <<>>
    /\ pe_calls = <<>>
    /\ cool_calls = <<>>
    /\ output_stream = <<>>
    /\ cancel_requested = FALSE
    /\ ctx_cancelled = FALSE
    /\ pc = "running"

PipeNext ==
    \/ smooth_path_interpolator
    \/ generator
    \/ spiral_vase
    \/ pressure_equalizer
    \/ cooling
    \/ find_replace
    \/ output
    \/ FilterReturn
    \/ PipelineReturn
    \/ PipelineRethrow
    \/ RequestCancel

\* ------------------------------------------------------------------------
\* Part II.  PrintObject::slice_volumes: the model object and its layer ranges
\* ------------------------------------------------------------------------

\* Cross-sections are sets of cells of a one-row grid: a cell is far larger than the
\* EPSILON radii of closing_ex and opening, which therefore change no cell, and than
\* the XY offsets of the size compensation.
Cells == 1..NumCells

Extruders == 1..NumExtruders

\* print_object_region_id of the regions of PrintObjectRegions::all_regions: one
\* PrintRegion per extruder a region config can name.
Regions == 0..(NumExtruders - 1)

\* zs_from_layers(m_layers): the slice_z of the layers.
zs == [i \in 1..NumZ |-> 2 * i]

\* The top of the object: the end of the last layer height range.
ObjectTop == 2 * NumZ + 2

Min(S) == CHOOSE x \in S : \A y \in S : x <= y
Max(S) == CHOOSE x \in S : \A y \in S : x >= y
MinOf(a, b) == IF a <= b THEN a ELSE b
MaxOf(a, b) == IF a >= b THEN a ELSE b

\* ModelVolume: its type, the cells and the heights its mesh covers, and the extruder
\* its config names (a modifier overrides the extruder of its parent).
VolumeShapes ==
    { v \in [type : {"MODEL_PART", "NEGATIVE_VOLUME", "PARAMETER_MODIFIER"},
             xmin : Cells, xmax : Cells,
             zmin : {2 * l - 1 : l \in 1..NumZ}, zmax : {2 * NumZ + 1},
             extruder : 0..NumExtruders] :
        /\ v.xmin <= v.xmax
        /\ v.type = "MODEL_PART" => v.extruder \in Extruders
        /\ v.type = "PARAMETER_MODIFIER" => v.extruder = NumExtruders
        /\ v.type = "NEGATIVE_VOLUME" => v.extruder = 0 }

\* ModelObject::volumes, sorted by ModelVolume::id(): the id is the position.
ModelVolumeLists ==
    UNION { { s \in [1..n -> VolumeShapes] :
                /\ \E i \in 1..n : s[i].type = "MODEL_PART"
                /\ Cardinality({ i \in 1..n : s[i].zmin > 1 }) <= MaxRaisedVolumes } :
            n \in 1..MaxVolumes }

ModelVolume(volumes, id) ==
    [id |-> id, type |-> volumes[id].type, xmin |-> volumes[id].xmin,
     xmax |-> volumes[id].xmax, zmin |-> volumes[id].zmin, zmax |-> volumes[id].zmax,
     extruder |-> volumes[id].extruder]

is_model_part(mv) == mv.type = "MODEL_PART"
is_negative_volume(mv) == mv.type = "NEGATIVE_VOLUME"
is_modifier(mv) == mv.type = "PARAMETER_MODIFIER"

\* Where the layer height ranges of the object may be cut in two: between two slice
\* heights or exactly at one.
RangeCuts == {0} \cup {zs[k] : k \in 2..NumZ} \cup {zs[k] - 1 : k \in 2..NumZ}

LayerHeightRanges(cut) ==
    IF cut = 0 THEN << <<0, ObjectTop>> >> ELSE << <<0, cut>>, <<cut, ObjectTop>> >>

\* PrintObjectRegions::BoundingBox of a volume, clipped to a layer height range.
VolumeExtents(mv, range) ==
    [min |-> [x |-> mv.xmin, y |-> 1, z |-> MaxOf(mv.zmin, range[1])],
     max |-> [x |-> mv.xmax, y |-> 1, z |-> MinOf(mv.zmax, range[2])]]

VolumeInRange(mv, range) == mv.zmin < range[2] /\ mv.zmax > range[1]

BBoxIntersection(a, b) ==
    [min |-> [x |-> MaxOf(a.min.x, b.min.x), y |-> MaxOf(a.min.y, b.min.y),
              z |-> MaxOf(a.min.z, b.min.z)],
     max |-> [x |-> MinOf(a.max.x, b.max.x), y |-> MinOf(a.max.y, b.max.y),
              z |-> MinOf(a.max.z, b.max.z)]]

BBoxIntersects(a, b) ==
    /\ a.min.x <= b.max.x /\ b.min.x <= a.max.x
    /\ a.min.y <= b.max.y /\ b.min.y <= a.max.y
    /\ a.min.z <= b.max.z /\ b.min.z <= a.max.z

\* The extents of a volume region: its box cut by the boxes of its parents.
RECURSIVE ModifierExtents(_, _)
ModifierExtents(volume_regions, idx) ==
    IF volume_regions[idx].parent = 0
      THEN volume_regions[idx].bbox
      ELSE BBoxIntersection(volume_regions[idx].bbox,
                            ModifierExtents(volume_regions, volume_regions[idx].parent))

\* The volume regions a modifier adds: one per preceding printable region it meets,
\* from the last one down, with the region of the overridden config; a modifier that
\* overrides nothing is stored once, under the region of its first model part parent.
RECURSIVE ModifierRegions(_, _, _, _, _, _)
ModifierRegions(volume_regions, mv, bbox, parent_region_id, parent_model_part_id, added) ==
    IF parent_region_id = 0
      THEN IF added = <<>> /\ parent_model_part_id # 0
             THEN << [model_volume |-> mv, parent |-> parent_model_part_id,
                      region |-> volume_regions[parent_model_part_id].region,
                      bbox |-> bbox] >>
             ELSE added
      ELSE LET parent == volume_regions[parent_region_id]
               meets == /\ ~is_negative_volume(parent.model_volume)
                        /\ BBoxIntersects(ModifierExtents(volume_regions, parent_region_id),
                                          bbox)
               overrides == mv.extruder - 1 # parent.region
           IN  IF meets /\ overrides
                 THEN ModifierRegions(volume_regions, mv, bbox, parent_region_id - 1,
                          parent_model_part_id,
                          Append(added, [model_volume |-> mv, parent |-> parent_region_id,
                                         region |-> mv.extruder - 1, bbox |-> bbox]))
                 ELSE ModifierRegions(volume_regions, mv, bbox, parent_region_id - 1,
                          IF meets /\ parent_model_part_id = 0
                               /\ is_model_part(parent.model_volume)
                            THEN parent_region_id ELSE parent_model_part_id,
                          added)

\* LayerRangeRegions::volume_regions of a layer height range. parent is the position
\* of the parent volume region, 0 for none (-1 in the source, whose positions start
\* at 0); region is the print_object_region_id, -1 for none (nullptr).
RECURSIVE VolumeRegions(_, _, _, _)
VolumeRegions(volumes, range, id, volume_regions) ==
    IF id > Len(volumes)
      THEN volume_regions
      ELSE LET mv == ModelVolume(volumes, id)
               bbox == VolumeExtents(mv, range)
           IN  IF ~VolumeInRange(mv, range)
                 THEN VolumeRegions(volumes, range, id + 1, volume_regions)
               ELSE IF is_model_part(mv)
                 THEN VolumeRegions(volumes, range, id + 1,
                          Append(volume_regions,
                                 [model_volume |-> mv, parent |-> 0,
                                  region |-> mv.extruder - 1, bbox |-> bbox]))
               ELSE IF is_negative_volume(mv)
                 THEN VolumeRegions(volumes, range, id + 1,
                          Append(volume_regions,
                                 [model_volume |-> mv, parent |-> 0, region |-> -1,
                                  bbox |-> bbox]))
               ELSE VolumeRegions(volumes, range, id + 1,
                        volume_regions \o
                        ModifierRegions(volume_regions, mv, bbox, Len(volume_regions),
                                        0, <<>>))

\* Variant: (extruder, region id of the parent, parent).
PaintedRegionKeyLess_by_extruder(volume_regions, l, r) ==
    LET lid == volume_regions[l.parent].region
        rid == volume_regions[r.parent].region
    IN  \/ l.extruder_id < r.extruder_id
        \/ l.extruder_id = r.extruder_id /\ lid < rid
        \/ l.extruder_id = r.extruder_id /\ lid = rid /\ l.parent < r.parent

\* Sorting key of a painted region: (region id of the parent, extruder, parent).
PaintedRegionKeyLess(volume_regions, l, r) ==
    LET lid == volume_regions[l.parent].region
        rid == volume_regions[r.parent].region
    IN  \/ lid < rid
        \/ lid = rid /\ l.extruder_id < r.extruder_id
        \/ lid = rid /\ l.extruder_id = r.extruder_id /\ l.parent < r.parent

\* LayerRangeRegions::painted_regions: for every painting extruder and every printable
\* volume region the region painted with that extruder, sorted by the region id of the
\* parent and then by the extruder.
PaintedRegions(volume_regions) ==
    LET all == { [extruder_id |-> e, parent |-> p, region |-> e - 1] :
                    e \in Extruders,
                    p \in { q \in 1..Len(volume_regions) : volume_regions[q].region # -1 } }
        rank(pr) == Cardinality({ o \in all : PaintedRegionKeyLess(volume_regions, o, pr) })
    IN  [i \in 1..Cardinality(all) |-> CHOOSE pr \in all : rank(pr) = i - 1]

LayerRangeRegions(volumes, range, painted) ==
    LET volume_regions == VolumeRegions(volumes, range, 1, <<>>) IN
    [layer_height_range |-> range,
     volumes |-> { id \in 1..Len(volumes) : VolumeInRange(ModelVolume(volumes, id), range) },
     volume_regions |-> volume_regions,
     painted_regions |-> IF painted THEN PaintedRegions(volume_regions) ELSE <<>>]

\* PrintObjectRegions::layer_ranges
LayerRanges(volumes, cut, painted) ==
    [i \in 1..Len(LayerHeightRanges(cut)) |->
        LayerRangeRegions(volumes, LayerHeightRanges(cut)[i], painted)]

has_volume(layer_range, id) == id \in layer_range.volumes

\* ---- slice_volumes_inner ----

\* slice_mesh_ex of one volume at one height.
MeshSlice(mv, z) == IF mv.zmin <= z /\ z <= mv.zmax THEN mv.xmin..mv.xmax ELSE {}

\* slice_volume(volume, zs, params)
slice_volume(mv, z) ==
    IF Len(z) = 0 THEN <<>> ELSE [i \in 1..Len(z) |-> MeshSlice(mv, z[i])]

\* for (; i < z.size() && z[i] < bound; ++ i): where the cursor stops.
RECURSIVE SkipHeights(_, _, _)
SkipHeights(z, i, bound) ==
    IF i <= Len(z) /\ z[i] < bound THEN SkipHeights(z, i + 1, bound) ELSE i

\* The loop over the ranges with the cursor i over z: z_filtered takes the heights
\* inside a range, n_filtered the span [first, i) of every range that holds a height.
RECURSIVE FilterHeights(_, _, _, _)
FilterHeights(z, ranges, r, st) ==
    IF r > Len(ranges)
      THEN st
      ELSE LET first == SkipHeights(z, st.i, ranges[r][1])
               i == SkipHeights(z, first, ranges[r][2])
           IN  FilterHeights(z, ranges, r + 1,
                   [i |-> i,
                    z_filtered |-> st.z_filtered \o SubSeq(z, first, i - 1),
                    n_filtered |-> IF i > first THEN Append(st.n_filtered, <<first, i>>)
                                   ELSE st.n_filtered])

\* Variant: the heights are not filtered by the ranges.
slice_volume_ranges_unfiltered(mv, z, ranges) ==
    IF Len(z) = 0 \/ Len(ranges) = 0 THEN <<>> ELSE slice_volume(mv, z)

\* slice_volume(volume, z, ranges, params): the filtered heights are sliced and the
\* slices are moved to the positions of their spans; no result if no height is left.
slice_volume_ranges(mv, z, ranges) ==
    IF Len(z) = 0 \/ Len(ranges) = 0
      THEN <<>>
    ELSE IF Len(ranges) = 1 /\ z[1] >= ranges[1][1] /\ z[Len(z)] < ranges[1][2]
      THEN slice_volume(mv, z)
    ELSE LET f == FilterHeights(z, ranges, 1,
                                [i |-> 1, z_filtered |-> <<>>, n_filtered |-> <<>>])
             layers == slice_volume(mv, f.z_filtered)
             before(k) == Cardinality({ <<n, j>> \in (1..(k - 1)) \X (1..Len(z)) :
                                          f.n_filtered[n][1] <= j /\ j < f.n_filtered[n][2] })
             spans(j) == { k \in 1..Len(f.n_filtered) :
                             f.n_filtered[k][1] <= j /\ j < f.n_filtered[k][2] }
         IN  IF f.n_filtered = <<>>
               THEN <<>>
               ELSE [j \in 1..Len(z) |->
                       IF spans(j) = {} THEN {}
                       ELSE LET k == Max(spans(j)) IN
                            layers[before(k) + j - f.n_filtered[k][1] + 1]]

SelectRanges(lrs, id) ==
    LET keep == { i \in 1..Len(lrs) : has_volume(lrs[i], id) }
        nth(k) == CHOOSE i \in keep : Cardinality({ j \in keep : j < i }) = k - 1
    IN  [k \in 1..Cardinality(keep) |-> lrs[nth(k)].layer_height_range]

\* Variant: the result of every volume is kept, also one without slices.
RECURSIVE slice_volumes_inner_no_pop(_, _, _, _, _)
slice_volumes_inner_no_pop(volumes, lrs, z, id, out) ==
    IF id > Len(volumes)
      THEN out
      ELSE LET mv == ModelVolume(volumes, id)
               slices ==
                   IF Len(lrs) = 1
                     THEN IF has_volume(lrs[1], id) THEN slice_volume(mv, z) ELSE <<>>
                     ELSE slice_volume_ranges(mv, z, SelectRanges(lrs, id))
           IN  slice_volumes_inner_no_pop(volumes, lrs, z, id + 1,
                   Append(out, [volume_id |-> id, slices |-> slices]))

RECURSIVE slice_volumes_inner(_, _, _, _, _)
slice_volumes_inner(volumes, lrs, z, id, out) ==
    IF id > Len(volumes)
      THEN out
      ELSE LET mv == ModelVolume(volumes, id)
               slices ==
                   IF Len(lrs) = 1
                     THEN IF has_volume(lrs[1], id) THEN slice_volume(mv, z) ELSE <<>>
                     ELSE slice_volume_ranges(mv, z, SelectRanges(lrs, id))
           IN  slice_volumes_inner(volumes, lrs, z, id + 1,
                   IF slices = <<>> THEN out
                   ELSE Append(out, [volume_id |-> id, slices |-> slices]))

\* lower_bound by volume_id: the position of the slices of the volume.
volume_slices_find_by_id(vs, id) ==
    Min({ k \in 1..Len(vs) : ~(vs[k].volume_id < id) })

overlap_in_xy(l, r) ==
    ~(l.max.x < r.min.x \/ l.min.x > r.max.x \/ l.max.y < r.min.y \/ l.min.y > r.max.y)

\* Variant: a cursor that is not advanced.
layer_range_next_stale(lrs, it, z) == it

\* The position of the layer range of height z, searching from position it.
RECURSIVE layer_range_next(_, _, _)
layer_range_next(lrs, it, z) ==
    IF lrs[it].layer_height_range[2] <= z THEN layer_range_next(lrs, it + 1, z) ELSE it

layer_range_first(lrs, z) ==
    LET it == Min({ i \in 1..Len(lrs) : ~(lrs[i].layer_height_range[2] < z) }) IN
    IF z = lrs[it].layer_height_range[2]
         /\ it + 1 <= Len(lrs) /\ lrs[it + 1].layer_height_range[1] = z
      THEN it + 1
      ELSE it

\* ------------------------------------------------------------------------
\* Part II.  slices_to_regions
\* ------------------------------------------------------------------------

\* slices_dst[z_idx] = std::move(slices_src.slices[z_idx]): the source is left empty.
MoveSlice(st, region_id, volume_id, z_idx) ==
    LET k == volume_slices_find_by_id(st.volume_slices, volume_id) IN
    [st EXCEPT !.slices_by_region[region_id][z_idx] = st.volume_slices[k].slices[z_idx],
               !.volume_slices[k].slices[z_idx] = {}]

BBoxHasZ(bbox, z) == bbox.min.z <= z /\ bbox.max.z >= z

\* The first volume region of a model part whose box holds z; 0 for none.
idx_first_printable_region(layer_range, z) ==
    LET vr == layer_range.volume_regions
        printable == { i \in 1..Len(vr) :
                         BBoxHasZ(vr[i].bbox, z) /\ is_model_part(vr[i].model_volume) }
    IN  IF printable = {} THEN 0 ELSE Min(printable)

\* A volume region past the first printable one overlaps in XY a region between the
\* first printable one and itself, both boxes holding z.
complex(layer_range, z) ==
    LET vr == layer_range.volume_regions
        first == idx_first_printable_region(layer_range, z)
    IN  /\ first # 0
        /\ \E idx_region \in (first + 1)..Len(vr) :
              /\ BBoxHasZ(vr[idx_region].bbox, z)
              /\ \E idx_region2 \in first..(idx_region - 1) :
                    /\ BBoxHasZ(vr[idx_region2].bbox, z)
                    /\ overlap_in_xy(vr[idx_region].bbox, vr[idx_region2].bbox)

RECURSIVE SkipBelow(_, _, _)
SkipBelow(z, z_idx, bound) ==
    IF z_idx <= Len(z) /\ z[z_idx] < bound THEN SkipBelow(z, z_idx + 1, bound) ELSE z_idx

\* A layer range of one model part: its slices go to its region as they are.
RECURSIVE ShuffleSingle(_, _)
ShuffleSingle(st, layer_range) ==
    IF st.z_idx <= Len(st.zs) /\ st.zs[st.z_idx] < layer_range.layer_height_range[2]
      THEN LET front == layer_range.volume_regions[1] IN
           ShuffleSingle([MoveSlice(st, front.region, front.model_volume.id, st.z_idx)
                            EXCEPT !.z_idx = @ + 1], layer_range)
      ELSE st

\* A layer range of several volume regions: a complex height is collected, at any
\* other the slice of the first printable region goes to its region.
RECURSIVE ShuffleSeveral(_, _)
ShuffleSeveral(st, layer_range) ==
    IF st.z_idx <= Len(st.zs) /\ st.zs[st.z_idx] < layer_range.layer_height_range[2]
      THEN LET z_idx == st.z_idx
               z == st.zs[z_idx]
               first == idx_first_printable_region(layer_range, z)
               region == layer_range.volume_regions[first]
               st1 == IF complex(layer_range, z)
                        THEN [st EXCEPT !.zs_complex = Append(@, <<z_idx, z>>)]
                      ELSE IF first >= 1
                        THEN MoveSlice(st, region.region, region.model_volume.id, z_idx)
                      ELSE st
           IN  ShuffleSeveral([st1 EXCEPT !.z_idx = @ + 1], layer_range)
      ELSE st

ShuffleLayerRange(st, layer_range) ==
    LET st1 == [st EXCEPT !.z_idx = SkipBelow(st.zs, @, layer_range.layer_height_range[1])] IN
    IF Len(layer_range.volume_regions) = 0
      THEN st1
    ELSE IF Len(layer_range.volume_regions) = 1
      THEN IF is_model_part(layer_range.volume_regions[1].model_volume)
             THEN ShuffleSingle(st1, layer_range)
             ELSE st1
    ELSE ShuffleSeveral(st1, layer_range)

RECURSIVE ShuffleLayerRanges(_, _, _)
ShuffleLayerRanges(st, lrs, i) ==
    IF i > Len(lrs) THEN st
    ELSE ShuffleLayerRanges(ShuffleLayerRange(st, lrs[i]), lrs, i + 1)

\* temp_slices of one height: every volume region takes the slice of its volume; a
\* volume that has several volume regions leaves the later ones an emptied slice.
RECURSIVE GatherSlices(_, _, _, _)
GatherSlices(st, layer_range, z_idx, i) ==
    IF i > Len(layer_range.volume_regions)
      THEN st
      ELSE LET volume_region == layer_range.volume_regions[i]
               k == volume_slices_find_by_id(st.volume_slices, volume_region.model_volume.id)
           IN  GatherSlices(
                   [temp_slices |-> Append(st.temp_slices,
                        [expolygons |-> st.volume_slices[k].slices[z_idx],
                         region_id |-> volume_region.region,
                         volume_id |-> volume_region.model_volume.id]),
                    volume_slices |-> [st.volume_slices EXCEPT ![k].slices[z_idx] = {}]],
                   layer_range, z_idx, i + 1)

\* A modifier: it takes from its parent what it covers of it.
ClipByModifier(temp_slices, layer_range, idx_region) ==
    LET region == layer_range.volume_regions[idx_region]
        next_region_same_modifier ==
            /\ idx_region + 1 <= Len(temp_slices)
            /\ layer_range.volume_regions[idx_region + 1].model_volume.id
                 = region.model_volume.id
        parent_slice == temp_slices[region.parent].expolygons
        source == temp_slices[idx_region].expolygons
        clipped ==
            IF parent_slice = {}
              THEN [temp_slices EXCEPT ![idx_region].expolygons = {}]
              ELSE [temp_slices EXCEPT
                      ![idx_region].expolygons = parent_slice \cap source,
                      ![region.parent].expolygons = parent_slice \ source]
    IN  IF next_region_same_modifier
          THEN [clipped EXCEPT ![idx_region + 1].expolygons = source]
          ELSE clipped

\* Variant: a model part or negative volume that clips nothing.
ClipPreceding_none(temp_slices, layer_range, idx_region) == temp_slices

\* Variant: only a model part clips the regions before it.
ClipPreceding_by_parts_only(temp_slices, layer_range, idx_region) ==
    LET region == layer_range.volume_regions[idx_region] IN
    [idx_region2 \in 1..Len(temp_slices) |->
        IF /\ is_model_part(region.model_volume)
           /\ idx_region2 < idx_region
           /\ temp_slices[idx_region2].expolygons # {}
           /\ ~is_negative_volume(layer_range.volume_regions[idx_region2].model_volume)
           /\ overlap_in_xy(region.bbox, layer_range.volume_regions[idx_region2].bbox)
          THEN [temp_slices[idx_region2] EXCEPT
                  !.expolygons = @ \ temp_slices[idx_region].expolygons]
          ELSE temp_slices[idx_region2]]

\* A model part or a negative volume: it clips every non-empty region before it that
\* is not of a negative volume and overlaps it in XY.
ClipPreceding(temp_slices, layer_range, idx_region) ==
    LET region == layer_range.volume_regions[idx_region] IN
    [idx_region2 \in 1..Len(temp_slices) |->
        IF /\ idx_region2 < idx_region
           /\ temp_slices[idx_region2].expolygons # {}
           /\ ~is_negative_volume(layer_range.volume_regions[idx_region2].model_volume)
           /\ overlap_in_xy(region.bbox, layer_range.volume_regions[idx_region2].bbox)
          THEN [temp_slices[idx_region2] EXCEPT
                  !.expolygons = @ \ temp_slices[idx_region].expolygons]
          ELSE temp_slices[idx_region2]]

RECURSIVE ClipRegions(_, _, _)
ClipRegions(temp_slices, layer_range, idx_region) ==
    IF idx_region > Len(layer_range.volume_regions)
      THEN temp_slices
      ELSE LET mv == layer_range.volume_regions[idx_region].model_volume
               next ==
                   IF temp_slices[idx_region].expolygons = {}
                     THEN temp_slices
                   ELSE IF is_modifier(mv)
                     THEN ClipByModifier(temp_slices, layer_range, idx_region)
                   ELSE IF is_model_part(mv) \/ is_negative_volume(mv)
                     THEN ClipPreceding(temp_slices, layer_range, idx_region)
                   ELSE temp_slices
           IN  ClipRegions(next, layer_range, idx_region + 1)

\* RegionSlice::operator< : the empty items last, the others by region_id; the
\* comparison of volume_id with itself never holds.
RegionSlice_less(this, rhs) ==
    LET this_empty == this.region_id < 0 \/ this.expolygons = {}
        rhs_empty == rhs.region_id < 0 \/ rhs.expolygons = {}
    IN  /\ ~this_empty
        /\ \/ rhs_empty
           \/ this.region_id < rhs.region_id
           \/ this.region_id = rhs.region_id /\ this.volume_id < this.volume_id

\* What std::sort may leave: any order of temp_slices that operator< accepts.
SortedOrders(temp_slices) ==
    { p \in Permutations(1..Len(temp_slices)) :
        \A i, j \in 1..Len(temp_slices) :
            i < j => ~RegionSlice_less(temp_slices[p[j]], temp_slices[p[i]]) }

\* temp_slices.erase(find_if(region_id == -1 || empty), end)
EraseEmpty(sorted) ==
    LET empty == { i \in 1..Len(sorted) :
                     sorted[i].region_id = -1 \/ sorted[i].expolygons = {} }
    IN  IF empty = {} THEN sorted ELSE SubSeq(sorted, 1, Min(empty) - 1)

\* The end of the run of slices that share the region_id of the slice at i.
RECURSIVE SameRegionEnd(_, _, _)
SameRegionEnd(sorted, i, j) ==
    IF j <= Len(sorted) /\ sorted[i].region_id = sorted[j].region_id
      THEN SameRegionEnd(sorted, i, j + 1)
      ELSE j

\* Merge the slices of one region_id (append, then closing_ex) and store them.
RECURSIVE MergeAndStore(_, _, _, _)
MergeAndStore(slices, sorted, z_idx, i) ==
    IF i > Len(sorted)
      THEN slices
      ELSE LET j == SameRegionEnd(sorted, i, i + 1)
               expolygons == UNION { sorted[k].expolygons : k \in i..(j - 1) }
           IN  MergeAndStore([slices EXCEPT ![sorted[i].region_id][z_idx] = expolygons],
                             sorted, z_idx, j)

\* One complex height: gather, clip, sort in the order p, drop the empty, merge, store.
ClippedSlices(vs, layer_range, z_idx) ==
    LET gathered == GatherSlices([temp_slices |-> <<>>, volume_slices |-> vs],
                                 layer_range, z_idx, 1)
    IN  [temp_slices |-> ClipRegions(gathered.temp_slices, layer_range, 1),
         volume_slices |-> gathered.volume_slices]

StoreSlices(slices, temp_slices, z_idx, p) ==
    MergeAndStore(slices, EraseEmpty([i \in 1..Len(temp_slices) |-> temp_slices[p[i]]]),
                  z_idx, 1)

\* ------------------------------------------------------------------------
\* Part III.  apply_mm_segmentation
\* ------------------------------------------------------------------------

\* get_extents of a polygon set: the span of its cells.
get_extents(expolygons) ==
    IF expolygons = {}
      THEN [defined |-> FALSE, min |-> 0, max |-> 0]
      ELSE [defined |-> TRUE, min |-> Min(expolygons), max |-> Max(expolygons)]

BoundingBox_overlap(l, r) == ~(l.max < r.min \/ l.min > r.max)

\* by_extruder of one layer: the painted polygons per extruder (1-based) and their box.
ByExtruder(segmented) ==
    [extruder_id \in Extruders |->
        [expolygons |-> segmented[extruder_id], bbox |-> get_extents(segmented[extruder_id])]]

\* dst.expolygons = src if dst is empty, else append and needs_merge.
AppendByRegion(by_region, region_id, expolygons) ==
    IF expolygons = {}
      THEN by_region
      ELSE [by_region EXCEPT ![region_id] =
              IF @.expolygons = {}
                THEN [expolygons |-> expolygons, needs_merge |-> @.needs_merge]
                ELSE [expolygons |-> @.expolygons \cup expolygons, needs_merge |-> TRUE]]

\* std::find_if from position `from`: the first painted region whose parent volume
\* region has the given region; Len + 1 stands for cend().
FirstPaintedOfRegion(layer_range, from, region_id) ==
    LET found == { i \in from..Len(layer_range.painted_regions) :
                     layer_range.volume_regions[layer_range.painted_regions[i].parent].region
                       = region_id }
    IN  IF found = {} THEN Len(layer_range.painted_regions) + 1 ELSE Min(found)

\* std::find_if from position `from`: the first painted region of an extruder >= the
\* given one.
FirstPaintedOfExtruder(layer_range, from, extruder_id) ==
    LET found == { i \in from..Len(layer_range.painted_regions) :
                     layer_range.painted_regions[i].extruder_id >= extruder_id }
    IN  IF found = {} THEN Len(layer_range.painted_regions) + 1 ELSE Min(found)

\* The loop over the extruders for one parent region: what each overlapping mask
\* steals from the parent goes to the target region; the mask of the parent's own
\* extruder is remembered and steals nothing. `selected` is the history of the
\* cursor: for which parent and extruder it went from where to which painted region.
RECURSIVE StealByExtruder(_, _, _, _, _, _)
StealByExtruder(st, layer_range, by_extruder, parent_slices, parent_region_id, extruder_id) ==
    IF extruder_id > NumExtruders
      THEN st
      ELSE LET segmented == by_extruder[extruder_id]
               it_target_region ==
                   FirstPaintedOfExtruder(layer_range, st.it_painted_region_begin, extruder_id)
               target == layer_range.painted_regions[it_target_region]
               stolen == parent_slices \cap segmented.expolygons
               selection == [parent |-> parent_region_id, extruder_id |-> extruder_id,
                             from |-> st.it_painted_region_begin, it |-> it_target_region]
               st1 ==
                   IF \/ ~segmented.bbox.defined
                      \/ ~BoundingBox_overlap(get_extents(parent_slices), segmented.bbox)
                     THEN st
                   ELSE IF target.region = parent_region_id
                     THEN [st EXCEPT !.it_painted_region_begin = it_target_region,
                                     !.self_extruder_id = extruder_id,
                                     !.selected = Append(@, selection)]
                   ELSE [st EXCEPT !.it_painted_region_begin = it_target_region,
                                   !.by_region = AppendByRegion(@, target.region, stolen),
                                   !.selected = Append(@, selection)]
           IN  StealByExtruder(st1, layer_range, by_extruder, parent_slices,
                               parent_region_id, extruder_id + 1)

\* Variant: the parent region is trimmed by the mask of its own extruder too.
Mine_trimmed_by_self(parent_slices, by_extruder, self_extruder_id) ==
    parent_slices \ UNION { by_extruder[e].expolygons : e \in Extruders }

\* mine: the slices of the parent region less every overlapping mask but the one of
\* its own extruder; opening(union_ex(mine), 5 EPSILON) keeps every cell.
Mine(parent_slices, by_extruder, self_extruder_id) ==
    parent_slices \
        UNION { by_extruder[e].expolygons :
                  e \in { x \in Extruders :
                            /\ x # self_extruder_id
                            /\ by_extruder[x].bbox.defined
                            /\ BoundingBox_overlap(get_extents(parent_slices),
                                                   by_extruder[x].bbox) } }

\* The loop over the parent LayerRegions of one layer, with the forward cursor
\* it_painted_region_begin over layer_range.painted_regions.
RECURSIVE SplitLayerRegions(_, _, _, _, _)
SplitLayerRegions(st, layer, layer_range, by_extruder, parent_layer_region_idx) ==
    IF parent_layer_region_idx \notin DOMAIN layer.m_regions
      THEN st
      ELSE LET cend == Len(layer_range.painted_regions) + 1
               parent_slices == layer.m_regions[parent_layer_region_idx]
               it_first_painted_region ==
                   FirstPaintedOfRegion(layer_range, st.it_painted_region_begin,
                                        parent_layer_region_idx)
               stolen ==
                   StealByExtruder(
                       [it_painted_region_begin |-> it_first_painted_region,
                        self_extruder_id |-> -1, by_region |-> st.by_region,
                        selected |-> st.selected],
                       layer_range, by_extruder, parent_slices, parent_layer_region_idx, 1)
               mine == Mine(parent_slices, by_extruder, stolen.self_extruder_id)
               st1 ==
                   IF st.it_painted_region_begin = cend THEN st
                   ELSE IF parent_slices = {} THEN st
                   ELSE IF it_first_painted_region = cend THEN st
                   ELSE [it_painted_region_begin |-> stolen.it_painted_region_begin,
                         by_region |-> AppendByRegion(stolen.by_region,
                                                      parent_layer_region_idx, mine),
                         selected |-> stolen.selected]
           IN  SplitLayerRegions(st1, layer, layer_range, by_extruder,
                                 parent_layer_region_idx + 1)

\* The body of the loop for one layer: the layer with the surfaces of its LayerRegions
\* re-created; closing_ex(10 EPSILON) keeps every cell. An unpainted layer is left
\* as it is.
SplitLayer(layer, segmented, layer_range) ==
    SplitLayerRegions(
        [it_painted_region_begin |-> 1,
         by_region |-> [r \in DOMAIN layer.m_regions |->
                          [expolygons |-> {}, needs_merge |-> FALSE]],
         selected |-> <<>>],
        layer, layer_range, ByExtruder(segmented), 0)

PaintLayer(layer, segmented, layer_range) ==
    LET layer_split == \E e \in Extruders : segmented[e] # {}
        by_region == SplitLayer(layer, segmented, layer_range).by_region
    IN  IF ~layer_split
          THEN layer
          ELSE [layer EXCEPT !.m_regions =
                  [region_id \in DOMAIN layer.m_regions |-> by_region[region_id].expolygons]]

\* The history of the cursor over the painted regions of one layer.
PaintCursor(layer, segmented, layer_range) ==
    IF \E e \in Extruders : segmented[e] # {}
      THEN SplitLayer(layer, segmented, layer_range).selected
      ELSE <<>>

\* ------------------------------------------------------------------------
\* Part IV.  slice_volumes: size compensation of the layers
\* ------------------------------------------------------------------------

\* ModelObject::is_mm_painted: some volume carries multi-material painting.
is_mm_painted == \E c \in Cells : painting.mm[c] # 0

xy_compensation_scaled ==
    IF nozzle_diameter > 1 /\ is_mm_painted THEN 0
    ELSE MinOf(m_config.xy_size_compensation, 0)

elephant_foot_compensation_scaled ==
    IF m_config.raft_layers = 0 THEN m_config.elefant_foot_compensation ELSE 0

\* elfoot of a layer: only the first layer is compensated. layer_id starts at 0.
elfoot(layer_id) == IF layer_id = 0 THEN elephant_foot_compensation_scaled ELSE 0

\* Layer::merged: the union of the slices of all regions of the layer.
merged(layer) == UNION { layer.m_regions[r] : r \in DOMAIN layer.m_regions }

\* The shared locations the body of the loop touches for one layer.
Loc(obj, i, j) == [obj |-> obj, i |-> i, j |-> j]

\* The body reaches the declaration of `static const float eps`: a layer of several
\* regions that is compensated.
reaches_eps(layer_id, layer) ==
    /\ Cardinality(DOMAIN layer.m_regions) # 1
    /\ (xy_compensation_scaled < 0 \/ elfoot(layer_id) > 0)

CompensationAccesses(layer_id, layer) ==
    LET regions == DOMAIN layer.m_regions
        single == Cardinality(regions) = 1
        rw_slices == { [loc |-> Loc("m_slices", layer_id, r), kind |-> k] :
                         r \in regions, k \in {"r", "w"} }
        r_slices == { [loc |-> Loc("m_slices", layer_id, r), kind |-> "r"] : r \in regions }
        rw_1st == { [loc |-> Loc("lslices_1st_layer", 0, 0), kind |-> k] : k \in {"r", "w"} }
        w_eps == IF reaches_eps(layer_id, layer) /\ ~eps_initialized
                   THEN { [loc |-> Loc("eps", 0, 0), kind |-> "w"] } ELSE {}
        r_eps == { [loc |-> Loc("eps", 0, 0), kind |-> "r"] }
        make_slices == r_slices \cup { [loc |-> Loc("lslices", layer_id, 0), kind |-> "w"] }
    IN  make_slices \cup
        (IF single
           THEN IF elfoot(layer_id) > 0 THEN rw_1st \cup rw_slices
                ELSE IF xy_compensation_scaled < 0 THEN rw_slices ELSE {}
           ELSE IF xy_compensation_scaled < 0 \/ elfoot(layer_id) > 0
                  THEN rw_slices \cup w_eps
                         \cup (IF elfoot(layer_id) > 0 THEN rw_1st \cup r_eps ELSE {})
                  ELSE {})

\* lslices_1st_layer after the body ran for one layer: the uncompensated slices of
\* the layer if the elephant foot compensation applies to it.
FirstLayerSlices(layer_id, layer, before) ==
    IF elfoot(layer_id) > 0 THEN merged(layer) ELSE before

\* ------------------------------------------------------------------------
\* tbb::parallel_for over a blocked_range, and the three loops of slice_volumes
\* ------------------------------------------------------------------------

\* The number of indices of the loop of the running job.
RangeSize ==
    IF job = "regions" THEN Len(zs_complex) ELSE Len(m_layers)

\* The height of the index a chunk starts with.
HeightAt(i) ==
    IF job = "regions" THEN zs_complex[i][2] ELSE m_layers[i].slice_z

\* blocked_range split into chunks [begin, end): one invocation of the body each.
\* `starts` holds the first index of every chunk but the first.
Chunks(n, starts) ==
    LET all == {1} \cup starts
        nth(k) == CHOOSE b \in all : Cardinality({ c \in all : c < b }) = k - 1
    IN  [k \in 1..Cardinality(all) |->
            [begin |-> nth(k),
             end |-> IF k = Cardinality(all) THEN n + 1 ELSE nth(k + 1)]]

\* The body of a chunk starts: it_layer_range = layer_range_first(layer_ranges, z) of
\* its first index (the size compensation loop keeps no cursor).
\* temp_slices is the vector of the body of slices_to_regions as the sort and the erase
\* of the last height left it.
NewTask(chunk) ==
    [begin |-> chunk.begin, end |-> chunk.end, next |-> chunk.begin,
     it_layer_range |-> IF job = "compensation" THEN 0
                        ELSE layer_range_first(layer_ranges, HeightAt(chunk.begin)),
     temp_slices |-> <<>>, selected |-> <<>>]

\* slices_to_regions, first part: shuffle the slices that need no clipping into their
\* regions and collect the complex heights.
ShuffleSlices ==
    /\ job = "regions"
    /\ slice_pc = "shuffle"
    /\ \E st \in { ShuffleLayerRanges(
                        [zs |-> zs, z_idx |-> 1, slices_by_region |-> slices_by_region,
                         volume_slices |-> volume_slices, zs_complex |-> <<>>],
                        layer_ranges, 1) } :
          /\ slices_by_region' = st.slices_by_region
          /\ volume_slices' = st.volume_slices
          /\ zs_complex' = st.zs_complex
          /\ slice_pc' = IF st.zs_complex = <<>> THEN "done" ELSE "split"
    /\ UNCHANGED <<job, model_volumes, layer_ranges, tasks, accesses, m_layers,
                   segmentation, paint_input, m_config, lslices_1st_layer, eps_initialized>>
    /\ UNCHANGED <<pipeVars, objVars, genVars>>

\* tbb::parallel_for splits the range into chunks and runs the body on each.
StartParallelFor ==
    /\ slice_pc = "split"
    /\ \E starts \in SUBSET (2..RangeSize) :
          tasks' = [k \in 1..(Cardinality(starts) + 1) |->
                      NewTask(Chunks(RangeSize, starts)[k])]
    /\ slice_pc' = "parallel"
    /\ UNCHANGED <<job, model_volumes, layer_ranges, volume_slices, slices_by_region,
                   zs_complex, accesses, m_layers, segmentation, paint_input, m_config,
                   lslices_1st_layer, eps_initialized>>
    /\ UNCHANGED <<pipeVars, objVars, genVars>>

Runnable(t) ==
    /\ slice_pc = "parallel"
    /\ t \in DOMAIN tasks
    /\ tasks[t].next < tasks[t].end

\* slices_to_regions, second part: one iteration of the body for a complex height.
RegionsStep ==
    \E t \in DOMAIN tasks :
        /\ job = "regions"
        /\ Runnable(t)
        /\ LET z_idx == zs_complex[tasks[t].next][1]
               z == zs_complex[tasks[t].next][2]
               it_layer_range == layer_range_next(layer_ranges, tasks[t].it_layer_range, z)
               layer_range == layer_ranges[it_layer_range]
           IN  \E clipped \in { ClippedSlices(volume_slices, layer_range, z_idx) } :
                 LET stored == { clipped.temp_slices[i].region_id :
                                   i \in { k \in 1..Len(clipped.temp_slices) :
                                             /\ clipped.temp_slices[k].region_id # -1
                                             /\ clipped.temp_slices[k].expolygons # {} } }
                 IN  /\ \E p \in SortedOrders(clipped.temp_slices) :
                           /\ slices_by_region' =
                                StoreSlices(slices_by_region, clipped.temp_slices, z_idx, p)
                           /\ tasks' = [tasks EXCEPT
                                ![t].next = @ + 1,
                                ![t].it_layer_range = it_layer_range,
                                ![t].temp_slices =
                                    EraseEmpty([i \in 1..Len(clipped.temp_slices) |->
                                                   clipped.temp_slices[p[i]]])]
                     /\ volume_slices' = clipped.volume_slices
                     /\ accesses' = accesses
                          \cup { [task |-> t,
                                  loc |-> Loc("volume_slices",
                                              layer_range.volume_regions[i].model_volume.id,
                                              z_idx),
                                  kind |-> k] :
                                   i \in 1..Len(layer_range.volume_regions),
                                   k \in {"r", "w"} }
                          \cup { [task |-> t, loc |-> Loc("slices_by_region", r, z_idx),
                                  kind |-> "w"] : r \in stored }
        /\ UNCHANGED <<job, slice_pc, model_volumes, layer_ranges, zs_complex, m_layers,
                       segmentation, paint_input, m_config, lslices_1st_layer, eps_initialized>>
        /\ UNCHANGED <<pipeVars, objVars, genVars>>

\* apply_mm_segmentation: one iteration of the body for a layer.
PaintStep ==
    \E t \in DOMAIN tasks :
        /\ job = "paint"
        /\ Runnable(t)
        /\ LET layer_id == tasks[t].next
               layer == m_layers[layer_id]
               it_layer_range ==
                   layer_range_next(layer_ranges, tasks[t].it_layer_range, layer.slice_z)
               layer_split == \E e \in Extruders : segmentation[layer_id][e] # {}
           IN  /\ m_layers' = [m_layers EXCEPT ![layer_id] =
                       PaintLayer(layer, segmentation[layer_id], layer_ranges[it_layer_range])]
               /\ segmentation' = [segmentation EXCEPT ![layer_id] = [e \in Extruders |-> {}]]
               /\ tasks' = [tasks EXCEPT ![t].next = @ + 1,
                                         ![t].it_layer_range = it_layer_range,
                                         ![t].selected =
                                             PaintCursor(layer, segmentation[layer_id],
                                                         layer_ranges[it_layer_range])]
               /\ accesses' = accesses
                    \cup { [task |-> t, loc |-> Loc("segmentation", layer_id, e), kind |-> k] :
                             e \in Extruders, k \in {"r", "w"} }
                    \cup (IF layer_split
                            THEN { [task |-> t, loc |-> Loc("m_slices", layer_id, r),
                                    kind |-> k] :
                                     r \in DOMAIN layer.m_regions, k \in {"r", "w"} }
                            ELSE {})
        /\ UNCHANGED <<job, slice_pc, model_volumes, layer_ranges, volume_slices,
                       slices_by_region, zs_complex, paint_input, m_config,
                       lslices_1st_layer, eps_initialized>>
        /\ UNCHANGED <<pipeVars, objVars, genVars>>

\* The size compensation loop: one iteration of the body for a layer. The offsets are
\* below the size of a cell; make_slices merges the regions into lslices.
CompensationStep ==
    \E t \in DOMAIN tasks :
        /\ job = "compensation"
        /\ Runnable(t)
        /\ LET layer_id == tasks[t].next - 1
               layer == m_layers[tasks[t].next]
           IN  /\ lslices_1st_layer' = FirstLayerSlices(layer_id, layer, lslices_1st_layer)
               /\ eps_initialized' = (eps_initialized \/ reaches_eps(layer_id, layer))
               /\ m_layers' = [m_layers EXCEPT ![tasks[t].next].lslices = merged(layer)]
               /\ tasks' = [tasks EXCEPT ![t].next = @ + 1]
               /\ accesses' = accesses
                    \cup { [task |-> t, loc |-> a.loc, kind |-> a.kind] :
                             a \in CompensationAccesses(layer_id, layer) }
        /\ UNCHANGED <<job, slice_pc, model_volumes, layer_ranges, volume_slices,
                       slices_by_region, zs_complex, segmentation, paint_input, m_config>>
        /\ UNCHANGED <<pipeVars, objVars, genVars>>

\* tbb::parallel_for returns when every chunk is done. After the size compensation
\* loop the first layer gets the uncompensated lslices_1st_layer.
Join ==
    /\ slice_pc = "parallel"
    /\ \A t \in DOMAIN tasks : tasks[t].next = tasks[t].end
    /\ slice_pc' = "done"
    /\ m_layers' =
         IF job = "compensation" /\ elephant_foot_compensation_scaled > 0
              /\ Len(m_layers) > 0
           THEN [m_layers EXCEPT ![1].lslices = lslices_1st_layer]
           ELSE m_layers
    /\ UNCHANGED <<job, model_volumes, layer_ranges, volume_slices, slices_by_region,
                   zs_complex, tasks, accesses, segmentation, paint_input, m_config,
                   lslices_1st_layer, eps_initialized>>
    /\ UNCHANGED <<pipeVars, objVars, genVars>>

NoConfig == [xy_size_compensation |-> 0, elefant_foot_compensation |-> 0, raft_layers |-> 0]

\* The pipeline of process_layers is not running.
PipeIdle ==
    /\ layers_to_print = <<>>
    /\ m_spiral_vase = FALSE
    /\ m_pressure_equalizer = FALSE
    /\ m_find_replace = FALSE
    /\ layer_to_print_idx = 0
    /\ end_of_input = FALSE
    /\ inflight = {}
    /\ next_token = [f \in AllFilters |-> 0]
    /\ pe_buffer = NoLayer
    /\ cooling_gcode = <<>>
    /\ gen_out = <<>>
    /\ sv_calls = <<>>
    /\ pe_calls = <<>>
    /\ cool_calls = <<>>
    /\ output_stream = <<>>
    /\ cancel_requested = FALSE
    /\ ctx_cancelled = FALSE
    /\ pc = "idle"

\* slice_volumes at the call of slices_to_regions: the volumes are sliced.
RegionsInit ==
    /\ job = "regions"
    /\ slice_pc = "shuffle"
    /\ model_volumes \in ModelVolumeLists
    /\ \E cut \in RangeCuts : layer_ranges = LayerRanges(model_volumes, cut, FALSE)
    /\ volume_slices = slice_volumes_inner(model_volumes, layer_ranges, zs, 1, <<>>)
    /\ slices_by_region = [r \in Regions |-> [z_idx \in 1..NumZ |-> {}]]
    /\ zs_complex = <<>>
    /\ tasks = <<>>
    /\ accesses = {}
    /\ m_layers = <<>>
    /\ segmentation = <<>>
    /\ paint_input = <<>>
    /\ m_config = NoConfig
    /\ lslices_1st_layer = {}
    /\ eps_initialized = FALSE

\* The model parts of a painted object: one part per extruder of a set of extruders,
\* each covering the whole grid.
PaintedVolumeLists ==
    { [i \in 1..Cardinality(es) |->
          [type |-> "MODEL_PART", xmin |-> 1, xmax |-> NumCells, zmin |-> 1,
           zmax |-> 2 * NumZ + 1,
           extruder |-> CHOOSE e \in es : Cardinality({ x \in es : x < e }) = i - 1]] :
        es \in (SUBSET Extruders) \ {{}} }

\* slice_volumes at the call of apply_mm_segmentation: every layer holds the disjoint
\* slices of its regions, and the segmentation holds the painted cells per extruder.
\* The object and its painting are the same on every layer.
PaintInit ==
    /\ job = "paint"
    /\ slice_pc = "split"
    /\ model_volumes \in PaintedVolumeLists
    /\ \E cut \in RangeCuts : layer_ranges = LayerRanges(model_volumes, cut, TRUE)
    /\ \E region_of \in [Cells -> {-1} \cup { model_volumes[i].extruder - 1 :
                                                i \in 1..Len(model_volumes) }],
          extruder_of \in [Cells -> 0..NumExtruders] :
          /\ m_layers = [i \in 1..NumZ |->
                [slice_z |-> zs[i],
                 m_regions |-> [r \in Regions |-> { c \in Cells : region_of[c] = r }],
                 lslices |-> {}]]
          /\ segmentation = [i \in 1..NumZ |->
                [e \in Extruders |-> { c \in Cells : extruder_of[c] = e }]]
    /\ paint_input = [m_layers |-> m_layers, segmentation |-> segmentation]
    /\ volume_slices = <<>>
    /\ slices_by_region = <<>>
    /\ zs_complex = <<>>
    /\ tasks = <<>>
    /\ accesses = {}
    /\ m_config = NoConfig
    /\ lslices_1st_layer = {}
    /\ eps_initialized = FALSE

\* slice_volumes at the size compensation loop: the layers hold the slices of one or
\* more regions.
CompensationInit ==
    /\ job = "compensation"
    /\ slice_pc = "split"
    /\ model_volumes = <<>>
    /\ layer_ranges = <<>>
    /\ \E count \in 1..NumExtruders :
          m_layers = [i \in 1..NumZ |->
                [slice_z |-> zs[i],
                 m_regions |-> [r \in 0..(count - 1) |->
                                  { c \in Cells : (c - 1) % count = r }],
                 lslices |-> {}]]
    /\ m_config \in [xy_size_compensation : {-1, 0, 1},
                     elefant_foot_compensation : {0, 1}, raft_layers : {0, 1}]
    /\ segmentation = <<>>
    /\ paint_input = <<>>
    /\ volume_slices = <<>>
    /\ slices_by_region = <<>>
    /\ zs_complex = <<>>
    /\ tasks = <<>>
    /\ accesses = {}
    /\ lslices_1st_layer = {}
    /\ eps_initialized \in BOOLEAN

\* slice_volumes holds no data.
SliceDataIdle ==
    /\ model_volumes = <<>>
    /\ layer_ranges = <<>>
    /\ volume_slices = <<>>
    /\ slices_by_region = <<>>
    /\ zs_complex = <<>>
    /\ tasks = <<>>
    /\ accesses = {}
    /\ m_layers = <<>>
    /\ segmentation = <<>>
    /\ paint_input = <<>>
    /\ m_config = NoConfig
    /\ lslices_1st_layer = {}
    /\ eps_initialized = FALSE

\* No slicing job is running.
SliceIdle ==
    /\ job = "none"
    /\ slice_pc = "done"
    /\ SliceDataIdle

\* An object without painting.
NoPainting == [mm |-> [c \in Cells |-> 0], fuzzy_skin |-> FALSE]

NoCompensation == [extra_offset |-> 0, xy_compensation_scaled |-> 0]

\* PrintObject::slice is not running.
ObjectIdle ==
    /\ posSlice = "INVALID"
    /\ object_layers = <<>>
    /\ painting = NoPainting
    /\ nozzle_diameter = NumExtruders
    /\ warnings = {}
    /\ compensation = NoCompensation
    /\ previous_run = <<>>

\* Neither collect_layers_to_print nor process_classic is running.
AuxIdle == extra = <<>> /\ export = <<>> /\ skirt = <<>> /\ traversal = <<>>

GenIdle == collect = <<>> /\ onion = <<>> /\ AuxIdle

SliceInit == PipeIdle /\ ObjectIdle /\ GenIdle /\ (RegionsInit \/ PaintInit \/ CompensationInit)

SliceNext ==
    \/ ShuffleSlices
    \/ StartParallelFor
    \/ RegionsStep
    \/ PaintStep
    \/ CompensationStep
    \/ Join

SpecSlice == SliceInit /\ [][SliceNext]_vars

\* ------------------------------------------------------------------------
\* Specifications
\* ------------------------------------------------------------------------

Init == PipeInit /\ SliceIdle /\ ObjectIdle /\ GenIdle

Next == PipeNext

Spec == Init /\ [][Next]_vars

\* ------------------------------------------------------------------------
\* Properties of process_layers
\* ------------------------------------------------------------------------

\* <<0, 1, ..., n - 1>>: the indices of layers_to_print in input order.
Iota(n) == [i \in 1..n |-> i - 1]

IsPrefix(s, t) == Len(s) <= Len(t) /\ \A i \in 1..Len(s) : s[i] = t[i]

\* The item a LayerResult stands for: its index in layers_to_print, or NOP.
ItemOf(r) == IF r.nop_layer_result THEN NOP ELSE r.gcode[1]

SpiralVaseInput == [i \in 1..Len(sv_calls) |-> sv_calls[i].gcode[1]]
PressureEqualizerInput == [i \in 1..Len(pe_calls) |-> ItemOf(pe_calls[i])]
CoolingBufferInput == [i \in 1..Len(cool_calls) |-> cool_calls[i].gcode[1]]

\* C1: whatever the interleaving of the stages over the tokens in flight, the output
\* sink receives the layer texts in the order the layers were fed to the input stage:
\* the chunks written so far carry strictly increasing indices of layers_to_print.
C1_OutputInInputOrder ==
    \A i, j \in 1..Len(output_stream) : i < j => output_stream[i] < output_stream[j]

\* Two layers passed the pipeline and both texts are in the sink.
C1_Witness == pc = "returned" /\ Len(output_stream) >= 2

\* C2 (as stated): every stateful filter - spiral vase, pressure equalizer, cooling
\* buffer - has been invoked exactly once and in input order for every item the
\* generator produced, the no-op item included, when process_layers returns.
C2_AsStated ==
    pc = "returned" =>
        /\ m_spiral_vase => SpiralVaseInput = gen_out
        /\ m_pressure_equalizer => PressureEqualizerInput = gen_out
        /\ CoolingBufferInput = gen_out

\* C2 (amended): every stateful filter is invoked exactly once and in input order for
\* every real layer, so its sequence of real layers has no gap; the no-op item reaches
\* the pressure equalizer alone: the spiral vase and the cooling stage pass a no-op
\* item on without invoking SpiralVase or CoolingBuffer.
C2_FiltersSeeEveryLayerInOrder ==
    /\ IsPrefix(SpiralVaseInput, Iota(NumLayers))
    /\ IsPrefix(CoolingBufferInput, Iota(NumLayers))
    /\ IsPrefix(PressureEqualizerInput, Iota(NumLayers) \o <<NOP>>)
    /\ ~m_spiral_vase => sv_calls = <<>>
    /\ ~m_pressure_equalizer => pe_calls = <<>>
    /\ pc = "returned" =>
        /\ m_spiral_vase => SpiralVaseInput = Iota(NumLayers)
        /\ CoolingBufferInput = Iota(NumLayers)
        /\ m_pressure_equalizer => PressureEqualizerInput = Iota(NumLayers) \o <<NOP>>

\* All three filters ran over two layers plus the no-op item.
C2_Witness ==
    /\ pc = "returned"
    /\ m_spiral_vase
    /\ m_pressure_equalizer
    /\ NumLayers >= 2
    /\ Len(pe_calls) = NumLayers + 1
    /\ Len(sv_calls) = NumLayers
    /\ Len(cool_calls) = NumLayers

\* C28 as stated: in a run with the spiral vase filter that returns, SpiralVase is
\* told "last layer" for exactly one layer, and that layer is the last entry of
\* layers_to_print, the one for which the generator passes last_layer to process_layer.
C28_AsStated ==
    (pc = "returned" /\ m_spiral_vase /\ NumLayers > 0) =>
        LET told == { i \in 1..Len(sv_calls) : sv_calls[i].last_layer } IN
        /\ Cardinality(told) = 1
        /\ \A i \in told : sv_calls[i].gcode[1] = NumLayers - 1

\* C3: the generator returns the no-op result exactly once, as the last item after
\* the real layers, if and only if a pressure equalizer is present; once the input
\* stage has stopped the pipeline it has produced exactly those items and no more.
C3_NopOnceAtEndIffPressureEqualizer ==
    LET expected == Iota(NumLayers) \o (IF m_pressure_equalizer THEN <<NOP>> ELSE <<>>) IN
    /\ IsPrefix(gen_out, expected)
    /\ pc = "returned" => gen_out = expected
    /\ next_token["smooth_path_interpolator"] = layer_to_print_idx
    /\ layer_to_print_idx <= Len(expected)
    /\ end_of_input => layer_to_print_idx = Len(expected)

\* With a pressure equalizer the generator's last item was the no-op result.
C3_Witness ==
    /\ pc = "returned"
    /\ m_pressure_equalizer
    /\ NumLayers >= 1
    /\ Len(gen_out) = NumLayers + 1
    /\ gen_out[Len(gen_out)] = NOP

\* C4: when process_layers returns normally the text of every real layer has been
\* written to the sink exactly once, the final layer the pressure equalizer held back
\* included.
C4_EveryLayerWrittenOnce == pc = "returned" => output_stream = Iota(NumLayers)

\* A run with a pressure equalizer returned and the held-back final layer is written.
C4_Witness ==
    /\ pc = "returned"
    /\ m_pressure_equalizer
    /\ NumLayers >= 2
    /\ output_stream[Len(output_stream)] = NumLayers - 1

\* C5: once the print is canceled, a stage's poll raises instead of taking a further
\* real layer (the input filter feeds none, the generator generates none); once a poll
\* has raised no filter starts on anything and nothing more is written; and
\* process_layers then leaves with the cancellation error, never by a normal return.
C5_CancelStopsThePipeline ==
    [][ /\ cancel_requested =>
            /\ layer_to_print_idx < NumLayers => layer_to_print_idx' = layer_to_print_idx
            /\ gen_out' = gen_out \/ gen_out' = Append(gen_out, NOP)
        /\ cancel_requested /\ Len(gen_out) < NumLayers
             /\ next_token'["generator"] # next_token["generator"]
             => ctx_cancelled'
        /\ ctx_cancelled =>
            /\ ctx_cancelled'
            /\ UNCHANGED <<layer_to_print_idx, next_token, gen_out, sv_calls, pe_calls,
                           cool_calls, output_stream, pe_buffer, cooling_gcode,
                           end_of_input>>
            /\ pc' # "returned"
        /\ pc' = "canceled" => ctx_cancelled
        /\ pc = "canceled" => pc' = "canceled"
      ]_vars

\* The print was canceled in the middle: one layer is written, the input filter's poll
\* raised before the next one, and process_layers left with the error.
C5_Witness ==
    /\ pc = "canceled"
    /\ cancel_requested
    /\ output_stream # <<>>
    /\ layer_to_print_idx < NumLayers

\* ------------------------------------------------------------------------
\* Properties of slices_to_regions, apply_mm_segmentation and the parallel loops
\* ------------------------------------------------------------------------

\* The union of the slices of all regions at one height.
RegionsUnion(z_idx) == UNION { slices_by_region[r][z_idx] : r \in Regions }

\* The union of the mesh slices of the volumes of one type at one height.
TypeSlices(type, z_idx) ==
    UNION { MeshSlice(ModelVolume(model_volumes, id), zs[z_idx]) :
              id \in { i \in 1..Len(model_volumes) : model_volumes[i].type = type } }

\* C6: at every height the polygon sets of the regions are pairwise disjoint, whatever
\* the combination and order of model parts, modifiers and negative volumes.
C6_RegionsPairwiseDisjoint ==
    job = "regions" =>
        \A z_idx \in 1..NumZ : \A r1, r2 \in Regions :
            r1 # r2 => slices_by_region[r1][z_idx] \cap slices_by_region[r2][z_idx] = {}

\* A complex height of an object with a modifier and a negative volume where every
\* region got a slice.
C6_Witness ==
    /\ job = "regions"
    /\ slice_pc = "done"
    /\ \E i \in 1..Len(model_volumes) : is_modifier(model_volumes[i])
    /\ \E i \in 1..Len(model_volumes) : is_negative_volume(model_volumes[i])
    /\ \E i \in 1..Len(zs_complex) :
          \A r \in Regions : slices_by_region[r][zs_complex[i][1]] # {}

\* C7 (as stated): when slices_to_regions is done, at every height the union of the
\* region slices lies within the union of the slices of the model parts and holds all
\* of it that no negative volume covers: nothing is lost on the fast path, on the
\* shortcut for non-overlapping volumes, or on the complex path.
C7_AsStated ==
    job = "regions" /\ slice_pc = "done" =>
        \A z_idx \in 1..NumZ :
            /\ RegionsUnion(z_idx) \subseteq TypeSlices("MODEL_PART", z_idx)
            /\ (TypeSlices("MODEL_PART", z_idx) \ TypeSlices("NEGATIVE_VOLUME", z_idx))
                 \subseteq RegionsUnion(z_idx)

\* C8: the reclassification of painted areas between regions keeps, on every layer,
\* the union of the slices of all regions what it was before.
C8_PaintConservesUnion ==
    job = "paint" =>
        \A l \in 1..Len(m_layers) : merged(m_layers[l]) = merged(paint_input.m_layers[l])

\* A painted layer where a region got cells it did not have before.
C8_Witness ==
    /\ job = "paint"
    /\ slice_pc = "done"
    /\ \E l \in 1..Len(m_layers) : \E r \in Regions :
          /\ paint_input.m_layers[l].m_regions[r] # {}
          /\ ~(m_layers[l].m_regions[r] \subseteq paint_input.m_layers[l].m_regions[r])

\* The layer range that holds height z.
RangeOfHeight(z) ==
    CHOOSE i \in 1..Len(layer_ranges) :
        layer_ranges[i].layer_height_range[1] <= z /\ z < layer_ranges[i].layer_height_range[2]

RECURSIVE ClipComplexHeights(_, _)
ClipComplexHeights(st, i) ==
    IF i > Len(st.zs_complex)
      THEN st.slices_by_region
      ELSE LET z_idx == st.zs_complex[i][1]
               clipped == ClippedSlices(st.volume_slices,
                                        layer_ranges[RangeOfHeight(st.zs_complex[i][2])],
                                        z_idx)
               p == CHOOSE q \in SortedOrders(clipped.temp_slices) : TRUE
           IN  ClipComplexHeights(
                   [st EXCEPT !.volume_slices = clipped.volume_slices,
                              !.slices_by_region =
                                  StoreSlices(@, clipped.temp_slices, z_idx, p)],
                   i + 1)

\* The region slices as a function of the input alone: every height clipped against
\* the layer range that holds it.
ExpectedRegionSlices ==
    ClipComplexHeights(
        ShuffleLayerRanges(
            [zs |-> zs, z_idx |-> 1,
             slices_by_region |-> [r \in Regions |-> [z_idx \in 1..NumZ |-> {}]],
             volume_slices |-> slice_volumes_inner(model_volumes, layer_ranges, zs, 1, <<>>),
             zs_complex |-> <<>>],
            layer_ranges, 1),
        1)

\* The painted layers as a function of the input alone.
ExpectedPaintedLayers ==
    [l \in 1..Len(paint_input.m_layers) |->
        PaintLayer(paint_input.m_layers[l], paint_input.segmentation[l],
                   layer_ranges[RangeOfHeight(paint_input.m_layers[l].slice_z)])]

\* C9: region assignment and paint reclassification end with the same region slices
\* for the same input, however the range is split into chunks, however the chunks
\* interleave, and whatever order std::sort leaves equal items in.
C9_ResultIndependentOfChunking ==
    slice_pc = "done" =>
        /\ job = "regions" => slices_by_region = ExpectedRegionSlices
        /\ job = "paint" => m_layers = ExpectedPaintedLayers

\* Two chunks ran the complex heights of two different layer ranges.
C9_Witness ==
    /\ job = "regions"
    /\ slice_pc = "done"
    /\ Len(tasks) >= 2
    /\ tasks[1].it_layer_range # tasks[2].it_layer_range

\* C10 (as stated): in each of the three parallel loops every index belongs to exactly
\* one chunk, so its output slot is written by exactly one task, and no location that
\* a task writes is read or written by another task.
C10_AsStated ==
    /\ \A a, b \in accesses :
          a.loc = b.loc /\ (a.kind = "w" \/ b.kind = "w") => a.task = b.task
    /\ slice_pc \in {"parallel", "done"} /\ tasks # <<>> =>
          \A i \in 1..RangeSize :
              /\ Cardinality({ t \in DOMAIN tasks :
                                 tasks[t].begin <= i /\ i < tasks[t].end }) = 1
              /\ slice_pc = "done" =>
                    \E t \in DOMAIN tasks : tasks[t].begin <= i /\ i < tasks[t].next

\* C11: while the pipeline runs, the state of the generator (GCodeWriter position,
\* extruder, retraction, layer index, skirt and brim progress) is touched by the
\* generator filter only and by one invocation of it at a time.
C11_GeneratorStateConfined ==
    \A t1, t2 \in inflight :
        /\ t1.busy /\ t2.busy
        /\ "GCodeGenerator" \in FilterAccesses(Pipeline[t1.stage])
        /\ "GCodeGenerator" \in FilterAccesses(Pipeline[t2.stage])
        => t1 = t2 /\ Pipeline[t1.stage] = "generator"

\* The generator runs a layer while another filter runs another token.
C11_Witness ==
    \E t1, t2 \in inflight :
        /\ t1.busy /\ t2.busy /\ t1 # t2
        /\ Pipeline[t1.stage] = "generator"
        /\ ~t1.val.nop_layer_result
        /\ Pipeline[t2.stage] \in {"smooth_path_interpolator", "cooling"}


\* ------------------------------------------------------------------------
\* Part V.  PrintObject::slice and the sequence of slice_volumes
\* ------------------------------------------------------------------------

MaxObjectVolumes == 2

zs_from_layers(layers) == [i \in 1..Len(layers) |-> layers[i].slice_z]

\* new_layers: one Layer per object layer, without LayerRegions. `appends` counts, per
\* LayerRegion, the calls of m_slices.append since the LayerRegion was created.
\* lower_layer and upper_layer point to a layer by its place in the list, 0 is nullptr.
new_layers(heights) ==
    [i \in 1..Len(heights) |->
        [slice_z |-> heights[i], m_regions |-> <<>>, lslices |-> {}, appends |-> <<>>,
         lower_layer |-> i - 1,
         upper_layer |-> IF i < Len(heights) THEN i + 1 ELSE 0]]

\* Variant: the LayerRegions of a layer are created once and kept.
ResetRegions_kept(layers) ==
    [i \in 1..Len(layers) |->
        IF DOMAIN layers[i].m_regions = {}
          THEN [layers[i] EXCEPT !.m_regions = [r \in Regions |-> {}],
                                 !.appends = [r \in Regions |-> 0]]
          ELSE layers[i]]

\* Clear old LayerRegions, allocate for new PrintRegions.
ResetRegions(layers) ==
    [i \in 1..Len(layers) |->
        [layers[i] EXCEPT !.m_regions = [r \in Regions |-> {}],
                          !.appends = [r \in Regions |-> 0]]]

\* The positive XY compensation the volumes are sliced with.
extra_offset ==
    IF nozzle_diameter > 1 /\ is_mm_painted THEN 0
    ELSE MaxOf(0, m_config.xy_size_compensation)

\* slices_to_regions run to its end: the slices of every region at every height.
slices_to_regions(vs, z) ==
    ClipComplexHeights(
        ShuffleLayerRanges(
            [zs |-> z, z_idx |-> 1,
             slices_by_region |-> [r \in Regions |-> [z_idx \in 1..Len(z) |-> {}]],
             volume_slices |-> vs, zs_complex |-> <<>>],
            layer_ranges, 1),
        1)

\* m_layers[layer_id]->regions()[region_id]->m_slices.append(by_layer[layer_id])
AppendRegionSlices(layers, region_slices) ==
    [i \in 1..Len(layers) |->
        [layers[i] EXCEPT !.m_regions = [r \in Regions |-> @[r] \cup region_slices[r][i]],
                          !.appends = [r \in Regions |-> @[r] + 1]]]

\* Removing the top empty layers: Layer::empty holds if no region has slices.
RECURSIVE RemoveTopEmpty(_)
RemoveTopEmpty(layers) ==
    IF layers = <<>> THEN layers
    ELSE IF \E r \in Regions : layers[Len(layers)].m_regions[r] # {} THEN layers
    ELSE RemoveTopEmpty(SubSeq(layers, 1, Len(layers) - 1))

\* The link of the last layer is left as it is.
ClearUpperLayer_kept(layers) == layers

\* if (! m_layers.empty()) m_layers.back()->upper_layer = nullptr;
ClearUpperLayer(layers) ==
    IF layers = <<>> THEN layers
    ELSE [layers EXCEPT ![Len(layers)].upper_layer = 0]

\* The volumes of an object: any type, any cells, any heights between the slice
\* heights; a mesh may lie between two slice heights, below the first or above the
\* last, and it may end exactly at the last slice height.
ObjectVolumeLists ==
    LET shapes == { v \in [type : {"MODEL_PART", "NEGATIVE_VOLUME", "PARAMETER_MODIFIER"},
                           xmin : Cells, xmax : Cells,
                           zmin : {2 * l - 1 : l \in 1..(NumZ + 1)},
                           zmax : {2 * l - 1 : l \in 1..(NumZ + 1)} \cup {zs[NumZ]},
                           extruder : 0..NumExtruders] :
                      /\ v.xmin <= v.xmax
                      /\ v.zmin <= v.zmax
                      /\ v.type = "MODEL_PART" => v.extruder \in Extruders
                      /\ v.type = "PARAMETER_MODIFIER" => v.extruder = NumExtruders
                      /\ v.type = "NEGATIVE_VOLUME" => v.extruder = 0 }
    IN  UNION { { s \in [1..n -> shapes] : \E i \in 1..n : s[i].type = "MODEL_PART" } :
                n \in 1..MaxObjectVolumes }

\* PrintObject::slice is called. Either the geometry of the object varies and its
\* configuration is the default one, or the object is made of full-size parts and its
\* configuration, its painting, the number of nozzles, the number of its layers and
\* the state of the step vary.
ObjectInit ==
    /\ PipeIdle
    /\ job = "slice"
    /\ slice_pc = "call"
    /\ \/ /\ model_volumes \in ObjectVolumeLists
          /\ \E cut \in RangeCuts \cup {zs[1]} :
                layer_ranges = LayerRanges(model_volumes, cut, FALSE)
          /\ m_config = NoConfig
          /\ painting = NoPainting
          /\ nozzle_diameter = NumExtruders
          /\ object_layers = zs
          /\ posSlice = "INVALID"
       \/ /\ model_volumes \in PaintedVolumeLists
          /\ m_config \in [xy_size_compensation : {-1, 0, 1},
                           elefant_foot_compensation : {0}, raft_layers : {0}]
          /\ painting \in [mm : [Cells -> 0..NumExtruders], fuzzy_skin : BOOLEAN]
          /\ nozzle_diameter \in 1..NumExtruders
          /\ \E cut \in RangeCuts :
                layer_ranges = LayerRanges(model_volumes, cut,
                                           nozzle_diameter > 1 /\ is_mm_painted)
          /\ \E n \in 0..NumZ : object_layers = SubSeq(zs, 1, n)
          /\ posSlice \in {"INVALID", "DONE"}
    /\ volume_slices = <<>>
    /\ slices_by_region = <<>>
    /\ zs_complex = <<>>
    /\ tasks = <<>>
    /\ accesses = {}
    /\ m_layers = IF posSlice = "DONE"
                    THEN [i \in 1..NumZ |->
                            [slice_z |-> zs[i],
                             m_regions |-> [r \in Regions |-> IF r = 0 THEN Cells ELSE {}],
                             lslices |-> Cells, appends |-> [r \in Regions |-> 1],
                             lower_layer |-> i - 1,
                             upper_layer |-> IF i < NumZ THEN i + 1 ELSE 0]]
                    ELSE <<>>
    /\ segmentation = <<>>
    /\ paint_input = <<>>
    /\ lslices_1st_layer = {}
    /\ eps_initialized = FALSE
    /\ warnings = {}
    /\ compensation = NoCompensation
    /\ previous_run = <<>>
    /\ collect = <<>>
    /\ onion = <<>>
    /\ AuxIdle

\* PrintObject::slice up to the call of slice_volumes: a step that is done is not run
\* again; else the step is started and the layers are created anew.
SliceStart ==
    /\ job = "slice"
    /\ slice_pc = "call"
    /\ IF posSlice = "DONE"
         THEN /\ slice_pc' = "skipped"
              /\ UNCHANGED <<posSlice, m_layers>>
         ELSE /\ posSlice' = "STARTED"
              /\ m_layers' = new_layers(object_layers)
              /\ slice_pc' = "slice_volumes"
    /\ UNCHANGED <<job, model_volumes, layer_ranges, volume_slices, slices_by_region,
                   zs_complex, tasks, accesses, segmentation, paint_input, m_config,
                   lslices_1st_layer, eps_initialized>>
    /\ UNCHANGED <<object_layers, painting, nozzle_diameter, warnings, compensation,
                   previous_run>>
    /\ UNCHANGED <<pipeVars, genVars>>

\* slice_volumes up to the call of slices_to_regions: the LayerRegions are re-created
\* and the volumes are sliced at the heights of the layers.
SliceVolumesInner ==
    /\ job = "slice"
    /\ slice_pc = "slice_volumes"
    /\ m_layers' = ResetRegions(m_layers)
    /\ volume_slices' = slice_volumes_inner(model_volumes, layer_ranges,
                                            zs_from_layers(m_layers), 1, <<>>)
    /\ compensation' = [compensation EXCEPT !.extra_offset = extra_offset]
    /\ slice_pc' = "slices_to_regions"
    /\ UNCHANGED <<job, model_volumes, layer_ranges, slices_by_region, zs_complex, tasks,
                   accesses, segmentation, paint_input, m_config, lslices_1st_layer,
                   eps_initialized>>
    /\ UNCHANGED <<posSlice, object_layers, painting, nozzle_diameter, warnings,
                   previous_run>>
    /\ UNCHANGED <<pipeVars, genVars>>

\* slice_volumes: the slices go to their regions and to the layers, and the empty
\* layers at the top are removed.
SlicesToRegions ==
    /\ job = "slice"
    /\ slice_pc = "slices_to_regions"
    /\ m_layers' = ClearUpperLayer(RemoveTopEmpty(
                       AppendRegionSlices(m_layers,
                           slices_to_regions(volume_slices, zs_from_layers(m_layers)))))
    /\ volume_slices' = <<>>
    /\ slice_pc' = "painting"
    /\ UNCHANGED <<job, model_volumes, layer_ranges, slices_by_region, zs_complex, tasks,
                   accesses, segmentation, paint_input, m_config, lslices_1st_layer,
                   eps_initialized>>
    /\ UNCHANGED objVars
    /\ UNCHANGED <<pipeVars, genVars>>

\* slice_volumes: the warnings about the XY size compensation of a painted object, and
\* the segmentation by the multi-material painting, the same at every layer. The fuzzy
\* skin segmentation moves slices between regions of one extruder, which are one
\* region here.
ApplyPainting ==
    /\ job = "slice"
    /\ slice_pc = "painting"
    /\ LET mm == nozzle_diameter > 1 /\ is_mm_painted
           segmented == [e \in Extruders |-> { c \in Cells : painting.mm[c] = e }]
       IN  /\ warnings' = warnings
                \cup (IF mm /\ m_config.xy_size_compensation # 0
                        THEN {"multi-material painted"} ELSE {})
                \cup (IF painting.fuzzy_skin /\ m_config.xy_size_compensation # 0
                        THEN {"fuzzy skin painted"} ELSE {})
           /\ m_layers' =
                IF mm
                  THEN [l \in 1..Len(m_layers) |->
                          PaintLayer(m_layers[l], segmented,
                                     layer_ranges[RangeOfHeight(m_layers[l].slice_z)])]
                  ELSE m_layers
    /\ slice_pc' = "make_slices"
    /\ UNCHANGED <<job, model_volumes, layer_ranges, volume_slices, slices_by_region,
                   zs_complex, tasks, accesses, segmentation, paint_input, m_config,
                   lslices_1st_layer, eps_initialized>>
    /\ UNCHANGED <<posSlice, object_layers, painting, nozzle_diameter, compensation,
                   previous_run>>
    /\ UNCHANGED <<pipeVars, genVars>>

\* slice_volumes: the negative XY compensation and make_slices of every layer. The
\* offsets are below the size of a cell.
MakeSlices ==
    /\ job = "slice"
    /\ slice_pc = "make_slices"
    /\ compensation' = [compensation EXCEPT !.xy_compensation_scaled = xy_compensation_scaled]
    /\ m_layers' = [l \in 1..Len(m_layers) |->
                      [m_layers[l] EXCEPT !.lslices = merged(m_layers[l])]]
    /\ eps_initialized' =
         (eps_initialized \/ \E l \in 1..Len(m_layers) : reaches_eps(l - 1, m_layers[l]))
    /\ slice_pc' = IF previous_run = <<>> /\ posSlice = "STARTED" THEN "sliced" ELSE "sliced_again"
    /\ UNCHANGED <<job, model_volumes, layer_ranges, volume_slices, slices_by_region,
                   zs_complex, tasks, accesses, segmentation, paint_input, m_config,
                   lslices_1st_layer>>
    /\ UNCHANGED <<posSlice, object_layers, painting, nozzle_diameter, warnings,
                   previous_run>>
    /\ UNCHANGED <<pipeVars, genVars>>

\* Variant: the step is done whatever remains.
SliceFinish_always_done ==
    /\ job = "slice"
    /\ slice_pc = "sliced"
    /\ slice_pc' = "returned"
    /\ posSlice' = "DONE"
    /\ UNCHANGED <<job, model_volumes, layer_ranges, volume_slices, slices_by_region,
                   zs_complex, tasks, accesses, m_layers, segmentation, paint_input,
                   m_config, lslices_1st_layer, eps_initialized>>
    /\ UNCHANGED <<object_layers, painting, nozzle_diameter, warnings, compensation,
                   previous_run>>
    /\ UNCHANGED <<pipeVars, genVars>>

\* PrintObject::slice after slice_volumes: the loops over the layers that remain, then
\* the slicing error if no layer remains, else the step is done.
SliceFinish ==
    /\ job = "slice"
    /\ slice_pc = "sliced"
    /\ IF m_layers = <<>>
         THEN slice_pc' = "SlicingError" /\ UNCHANGED posSlice
         ELSE slice_pc' = "returned" /\ posSlice' = "DONE"
    /\ UNCHANGED <<job, model_volumes, layer_ranges, volume_slices, slices_by_region,
                   zs_complex, tasks, accesses, m_layers, segmentation, paint_input,
                   m_config, lslices_1st_layer, eps_initialized>>
    /\ UNCHANGED <<object_layers, painting, nozzle_diameter, warnings, compensation,
                   previous_run>>
    /\ UNCHANGED <<pipeVars, genVars>>

\* throw_if_canceled: the print was canceled while the object was sliced.
SliceCanceled ==
    /\ job = "slice"
    /\ slice_pc \in {"slice_volumes", "slices_to_regions", "painting", "make_slices", "sliced"}
    /\ previous_run = <<>>
    /\ slice_pc' = "canceled"
    /\ UNCHANGED <<job, model_volumes, layer_ranges, volume_slices, slices_by_region,
                   zs_complex, tasks, accesses, m_layers, segmentation, paint_input,
                   m_config, lslices_1st_layer, eps_initialized>>
    /\ UNCHANGED objVars
    /\ UNCHANGED <<pipeVars, genVars>>

\* slice_volumes is run once more on the sliced object.
SliceVolumesAgain ==
    /\ job = "slice"
    /\ slice_pc = "returned"
    /\ m_layers # <<>>
    /\ previous_run = <<>>
    /\ previous_run' = m_layers
    /\ slice_pc' = "slice_volumes"
    /\ UNCHANGED <<job, model_volumes, layer_ranges, volume_slices, slices_by_region,
                   zs_complex, tasks, accesses, m_layers, segmentation, paint_input,
                   m_config, lslices_1st_layer, eps_initialized>>
    /\ UNCHANGED <<posSlice, object_layers, painting, nozzle_diameter, warnings,
                   compensation>>
    /\ UNCHANGED <<pipeVars, genVars>>

ObjectNext ==
    \/ SliceStart
    \/ SliceVolumesInner
    \/ SlicesToRegions
    \/ ApplyPainting
    \/ MakeSlices
    \/ SliceFinish
    \/ SliceCanceled
    \/ SliceVolumesAgain

SpecObject == ObjectInit /\ [][ObjectNext]_vars

\* ------------------------------------------------------------------------
\* Properties of PrintObject::slice
\* ------------------------------------------------------------------------

\* C12: if no layer remains when slice_volumes has run, PrintObject::slice ends with
\* the slicing error (or with the cancellation of the print), the step posSlice stays
\* started and nothing marks it done afterwards.
C12_NoLayersIsSlicingError ==
    [][/\ (slice_pc = "sliced" /\ m_layers = <<>>)
            => (slice_pc' \in {"SlicingError", "canceled"} /\ posSlice' = "STARTED")
       /\ slice_pc = "SlicingError" => (posSlice = "STARTED" /\ posSlice' = "STARTED")]_vars

\* The object had layers, every one of them was removed as empty, and slice threw.
C12_Witness ==
    /\ slice_pc = "SlicingError"
    /\ object_layers # <<>>
    /\ posSlice = "STARTED"

\* C14 as stated: an object with a non-zero XY size compensation that is
\* multi-material painted or fuzzy-skin painted is sliced with a warning recorded and
\* with no XY size compensation, neither the positive offset of the volume slicing nor
\* the negative offset afterwards.
C14_AsStated ==
    (/\ job = "slice"
     /\ slice_pc = "sliced"
     /\ m_config.xy_size_compensation # 0
     /\ (nozzle_diameter > 1 /\ is_mm_painted) \/ painting.fuzzy_skin)
        => /\ warnings # {}
           /\ compensation.extra_offset = 0
           /\ compensation.xy_compensation_scaled = 0

\* ------------------------------------------------------------------------
\* Part VI.  GCodeGenerator::collect_layers_to_print(object) and do_export
\* ------------------------------------------------------------------------

MaxPrintLayers == 2

\* Two print_z not further apart than EPSILON are on the same layer.
EPSILON == 2

\* Layer::height of every layer.
LayerHeight == 8

\* object.layers() or object.support_layers(): print_z ascending, and whether the layer
\* has extrusions.
PrintLayerLists ==
    LET print_zs == {LayerHeight, LayerHeight + EPSILON, 2 * LayerHeight, 3 * LayerHeight} IN
    UNION { { l \in [1..n -> [print_z : print_zs, has_extrusions : BOOLEAN]] :
                \A i \in 1..(n - 1) : l[i].print_z + EPSILON < l[i + 1].print_z } :
            n \in 0..MaxPrintLayers }

\* ObjectLayerToPrint: object_layer and support_layer are positions in the lists of the
\* object, 0 stands for nullptr.
ObjectLayerToPrint_print_z(c, ltp) ==
    IF ltp.object_layer # 0 /\ ltp.support_layer # 0
      THEN (c.layers[ltp.object_layer].print_z + c.support_layers[ltp.support_layer].print_z) \div 2
    ELSE IF ltp.object_layer # 0 THEN c.layers[ltp.object_layer].print_z
    ELSE c.support_layers[ltp.support_layer].print_z

\* Variant: a support layer counts as a layer with extrusions.
has_extrusions_any_support(c, ltp) ==
    \/ ltp.object_layer # 0 /\ c.layers[ltp.object_layer].has_extrusions
    \/ ltp.support_layer # 0

has_extrusions(c, ltp) ==
    \/ ltp.object_layer # 0 /\ c.layers[ltp.object_layer].has_extrusions
    \/ ltp.support_layer # 0 /\ c.support_layers[ltp.support_layer].has_extrusions

\* The pairing of the next object layer with the next support layer: the one that is
\* lower by more than EPSILON goes alone.
NextLayerToPrint(c) ==
    LET object_layer ==
            IF c.idx_object_layer < Len(c.layers) THEN c.idx_object_layer + 1 ELSE 0
        support_layer ==
            IF c.idx_support_layer < Len(c.support_layers) THEN c.idx_support_layer + 1 ELSE 0
    IN  IF object_layer # 0 /\ support_layer # 0
          THEN IF c.layers[object_layer].print_z
                    < c.support_layers[support_layer].print_z - EPSILON
                 THEN [object_layer |-> object_layer, support_layer |-> 0]
               ELSE IF c.support_layers[support_layer].print_z
                         < c.layers[object_layer].print_z - EPSILON
                 THEN [object_layer |-> 0, support_layer |-> support_layer]
               ELSE [object_layer |-> object_layer, support_layer |-> support_layer]
          ELSE [object_layer |-> object_layer, support_layer |-> support_layer]

\* do_export has opened the temporary file and _do_export calls
\* collect_layers_to_print for the object.
CollectInit ==
    /\ PipeIdle
    /\ job = "collect"
    /\ slice_pc = "collecting"
    /\ SliceDataIdle
    /\ ObjectIdle
    /\ \E layers \in PrintLayerLists, support_layers \in PrintLayerLists :
          collect = [layers |-> layers, support_layers |-> support_layers,
                     idx_object_layer |-> 0, idx_support_layer |-> 0,
                     layers_to_print |-> <<>>, last_extrusion_layer |-> 0,
                     warning_ranges |-> <<>>, returned |-> <<"none">>,
                     gcode_file |-> "tmp"]
    /\ onion = <<>>
    /\ AuxIdle

\* One turn of the loop that pairs the layers. The contact distances of the supports
\* are zero.
CollectStep ==
    /\ job = "collect"
    /\ slice_pc = "collecting"
    /\ \/ collect.idx_object_layer < Len(collect.layers)
       \/ collect.idx_support_layer < Len(collect.support_layers)
    /\ LET layer_to_print == NextLayerToPrint(collect)
           collected == Append(collect.layers_to_print, layer_to_print)
           extrusions == has_extrusions(collect, layer_to_print)
           last_print_z ==
               IF collect.last_extrusion_layer = 0 THEN 0
               ELSE ObjectLayerToPrint_print_z(
                        collect, collect.layers_to_print[collect.last_extrusion_layer])
           maximal_print_z == last_print_z + LayerHeight + MaxOf(0, 0)
           print_z == ObjectLayerToPrint_print_z(collect, layer_to_print)
           to_lay_on ==
               \/ layer_to_print.object_layer # 0
                    /\ collect.layers[layer_to_print.object_layer].has_extrusions
               \/ layer_to_print.support_layer # 0
       IN  IF Len(collected) = 1 /\ ~extrusions
             THEN /\ slice_pc' = "SlicingError"
                  /\ collect' = [collect EXCEPT
                        !.idx_object_layer = @ + (IF layer_to_print.object_layer # 0 THEN 1 ELSE 0),
                        !.idx_support_layer = @ + (IF layer_to_print.support_layer # 0 THEN 1 ELSE 0),
                        !.layers_to_print = collected]
             ELSE /\ slice_pc' = "collecting"
                  /\ collect' = [collect EXCEPT
                        !.idx_object_layer = @ + (IF layer_to_print.object_layer # 0 THEN 1 ELSE 0),
                        !.idx_support_layer = @ + (IF layer_to_print.support_layer # 0 THEN 1 ELSE 0),
                        !.layers_to_print = collected,
                        !.warning_ranges =
                            IF to_lay_on /\ extrusions /\ print_z > maximal_print_z + 2 * EPSILON
                              THEN Append(@, <<last_print_z, print_z>>) ELSE @,
                        !.last_extrusion_layer =
                            IF extrusions THEN Len(collected) ELSE @]
    /\ UNCHANGED <<job, model_volumes, layer_ranges, volume_slices, slices_by_region,
                   zs_complex, tasks, accesses, m_layers, segmentation, paint_input,
                   m_config, lslices_1st_layer, eps_initialized>>
    /\ UNCHANGED <<objVars, onion, auxVars, pipeVars>>

\* The loop is over: the warning about the empty layers, and the list is returned.
CollectReturn ==
    /\ job = "collect"
    /\ slice_pc = "collecting"
    /\ collect.idx_object_layer = Len(collect.layers)
    /\ collect.idx_support_layer = Len(collect.support_layers)
    /\ slice_pc' = "collected"
    /\ collect' = [collect EXCEPT !.returned = collect.layers_to_print]
    /\ warnings' = IF collect.warning_ranges # <<>> THEN warnings \cup {"empty layer"}
                   ELSE warnings
    /\ UNCHANGED <<job, model_volumes, layer_ranges, volume_slices, slices_by_region,
                   zs_complex, tasks, accesses, m_layers, segmentation, paint_input,
                   m_config, lslices_1st_layer, eps_initialized>>
    /\ UNCHANGED <<posSlice, object_layers, painting, nozzle_diameter, compensation,
                   previous_run>>
    /\ UNCHANGED <<onion, auxVars, pipeVars>>

\* do_export after _do_export: the exception of collect_layers_to_print passes through
\* _do_export, the temporary file is removed and the exception is thrown on; else the
\* layers are processed and the file gets its name.
ExportEnd ==
    /\ job = "collect"
    /\ slice_pc \in {"SlicingError", "collected"}
    /\ IF slice_pc = "SlicingError"
         THEN /\ slice_pc' = "export failed"
              /\ collect' = [collect EXCEPT !.gcode_file = "removed"]
         ELSE /\ slice_pc' = "exported"
              /\ collect' = [collect EXCEPT !.gcode_file = "gcode"]
    /\ UNCHANGED <<job, model_volumes, layer_ranges, volume_slices, slices_by_region,
                   zs_complex, tasks, accesses, m_layers, segmentation, paint_input,
                   m_config, lslices_1st_layer, eps_initialized>>
    /\ UNCHANGED <<objVars, onion, auxVars, pipeVars>>

CollectNext == CollectStep \/ CollectReturn \/ ExportEnd

SpecCollect == CollectInit /\ [][CollectNext]_vars

\* C13: the first entry collected holds the layers of the object at its smallest
\* print_z, and if none of them has extrusions then collect_layers_to_print threw the
\* slicing error, returned no list, and no G-code file is left.
C13_EmptyFirstLayerIsSlicingError ==
    (job = "collect" /\ Len(collect.layers_to_print) >= 1) =>
        LET first == collect.layers_to_print[1]
            lowest == Min({ collect.layers[i].print_z : i \in 1..Len(collect.layers) }
                          \cup { collect.support_layers[i].print_z :
                                   i \in 1..Len(collect.support_layers) })
            at_lowest(l) == l.print_z <= lowest + EPSILON
        IN  /\ first.object_layer # 0 <=> (collect.layers # <<>> /\ at_lowest(collect.layers[1]))
            /\ first.support_layer # 0
                 <=> (collect.support_layers # <<>> /\ at_lowest(collect.support_layers[1]))
            /\ first.object_layer \in {0, 1} /\ first.support_layer \in {0, 1}
            /\ ~(\/ first.object_layer # 0 /\ collect.layers[1].has_extrusions
                 \/ first.support_layer # 0 /\ collect.support_layers[1].has_extrusions)
                 => /\ slice_pc \in {"SlicingError", "export failed"}
                    /\ collect.returned = <<"none">>
                    /\ collect.gcode_file # "gcode"

\* The object has a support layer without extrusions below its first object layer,
\* which has extrusions: the export failed.
C13_Witness ==
    /\ job = "collect"
    /\ slice_pc = "export failed"
    /\ collect.layers # <<>> /\ collect.layers[1].has_extrusions
    /\ collect.layers_to_print = << [object_layer |-> 0, support_layer |-> 1] >>

\* ------------------------------------------------------------------------
\* Part VII.  Further properties of slice_volumes and slices_to_regions
\* ------------------------------------------------------------------------

\* The ids of the volumes of one type.
VolumeIds(type) == { i \in 1..Len(model_volumes) : model_volumes[i].type = type }

\* The negative volume n holds the footprint of every model part of the object.
EnclosesParts(n) ==
    /\ n \in VolumeIds("NEGATIVE_VOLUME")
    /\ \A p \in VolumeIds("MODEL_PART") :
          /\ model_volumes[n].xmin <= model_volumes[p].xmin
          /\ model_volumes[p].xmax <= model_volumes[n].xmax

\* The height of index z_idx lies within the vertical extent of volume n.
InExtent(n, z_idx) ==
    model_volumes[n].zmin <= zs[z_idx] /\ zs[z_idx] <= model_volumes[n].zmax

\* The height of index z_idx is the last one below the extent of volume n; the model
\* parts reach it and no negative volume does.
JustBelowExtent(n, z_idx) ==
    /\ zs[z_idx] < model_volumes[n].zmin
    /\ z_idx + 1 <= NumZ
    /\ InExtent(n, z_idx + 1)
    /\ TypeSlices("MODEL_PART", z_idx) # {}
    /\ TypeSlices("NEGATIVE_VOLUME", z_idx) = {}

\* What C15 asks of the negative volume n when slices_to_regions is done.
EnclosedIsEmpty(n) ==
    \A z_idx \in 1..NumZ :
        /\ InExtent(n, z_idx) => RegionsUnion(z_idx) = {}
        /\ JustBelowExtent(n, z_idx) => RegionsUnion(z_idx) # {}

\* C15 (as stated): model parts that lie inside a negative volume leave empty region
\* slices at every height within the vertical extent of the negative volume, whatever
\* the order of the volumes in the volume region list, and non-empty region slices at
\* the height just outside that extent.
C15_AsStated ==
    (job = "regions" /\ slice_pc = "done") =>
        \A n \in 1..Len(model_volumes) : EnclosesParts(n) => EnclosedIsEmpty(n)

\* C15: the same for a negative volume that follows the model parts it holds in the
\* volume region list: a model part or negative volume clips the regions before it only.
C15_EnclosedByLaterNegativeIsEmpty ==
    (job = "regions" /\ slice_pc = "done") =>
        \A n \in 1..Len(model_volumes) :
            (EnclosesParts(n) /\ \A p \in VolumeIds("MODEL_PART") : p < n)
                => EnclosedIsEmpty(n)

\* A raised negative volume after a model part and its modifier: the region slices
\* are empty within its extent and not below it.
C15_Witness ==
    /\ job = "regions"
    /\ slice_pc = "done"
    /\ zs_complex # <<>>
    /\ \E n \in 1..Len(model_volumes) :
          /\ EnclosesParts(n)
          /\ \A p \in VolumeIds("MODEL_PART") : p < n
          /\ VolumeIds("PARAMETER_MODIFIER") # {}
          /\ \E z_idx \in 1..NumZ : JustBelowExtent(n, z_idx) /\ RegionsUnion(z_idx) # {}
          /\ \E z_idx \in 1..NumZ : InExtent(n, z_idx) /\ RegionsUnion(z_idx) = {}

\* The fragments of a height are in ascending order of the region id.
SortedByRegion(kept) ==
    \A i, j \in 1..Len(kept) : i < j => kept[i].region_id <= kept[j].region_id

\* The fragments of a height are in ascending order of (region id, volume id).
SortedByRegionAndVolume(kept) ==
    \A i, j \in 1..Len(kept) :
        i < j => \/ kept[i].region_id < kept[j].region_id
                 \/ /\ kept[i].region_id = kept[j].region_id
                    /\ kept[i].volume_id <= kept[j].volume_id

\* kept holds the non-empty fragments of clipped that have a region, each as often as
\* clipped does, and nothing else.
ExactlyEmptyRemoved(clipped, kept) ==
    LET survives(f) == f.region_id # -1 /\ f.expolygons # {}
        count(q, f) == Cardinality({ i \in 1..Len(q) : q[i] = f })
    IN  /\ \A i \in 1..Len(kept) : survives(kept[i])
        /\ \A i \in 1..Len(clipped) :
              survives(clipped[i]) => count(kept, clipped[i]) = count(clipped, clipped[i])
        /\ \A i \in 1..Len(kept) : count(clipped, kept[i]) = count(kept, kept[i])

\* Task t ran the body of slices_to_regions for one height in this step.
RegionsStepOf(t) ==
    /\ job = "regions"
    /\ slice_pc = "parallel"
    /\ DOMAIN tasks' = DOMAIN tasks
    /\ tasks'[t].next = tasks[t].next + 1

\* The fragments of the height task t is at, gathered and clipped.
ClippedOf(t) ==
    ClippedSlices(volume_slices,
                  layer_ranges[layer_range_next(layer_ranges, tasks[t].it_layer_range,
                                                zs_complex[tasks[t].next][2])],
                  zs_complex[tasks[t].next][1]).temp_slices

\* C16 (as stated): on the complex path the fragments of a height are, before they are
\* merged, in ascending order of (region id, volume id), and exactly the empty
\* fragments and the fragments without a region are removed.
C16_AsStated ==
    [][\A t \in DOMAIN tasks :
          RegionsStepOf(t) =>
              /\ SortedByRegionAndVolume(tasks'[t].temp_slices)
              /\ ExactlyEmptyRemoved(ClippedOf(t), tasks'[t].temp_slices)]_vars

\* What the sort and the erase do establish: the fragments are in ascending order of
\* the region id and exactly the empty and the region-less ones are removed.
FragmentsSortedByRegion ==
    [][\A t \in DOMAIN tasks :
          RegionsStepOf(t) =>
              /\ SortedByRegion(tasks'[t].temp_slices)
              /\ ExactlyEmptyRemoved(ClippedOf(t), tasks'[t].temp_slices)]_vars

\* slice_volumes_inner has returned: volume_slices is its result.
VolumesSliced == job = "slice" /\ slice_pc = "slices_to_regions"

VolumeRanges(id) == SelectRanges(layer_ranges, id)

InRanges(ranges, z) ==
    \E r \in 1..Len(ranges) : ranges[r][1] <= z /\ z < ranges[r][2]

\* The slices slice_volumes_inner got for volume id; none if it dropped the volume.
SlicesOf(id) ==
    LET entries == { k \in 1..Len(volume_slices) : volume_slices[k].volume_id = id } IN
    IF entries = {} THEN <<>> ELSE volume_slices[CHOOSE k \in entries : TRUE].slices

\* One entry per height: the slice at that height if it is inside a range of the
\* volume, nothing else.
SlicesInRanges(id) ==
    [i \in 1..Len(m_layers) |->
        IF InRanges(VolumeRanges(id), m_layers[i].slice_z)
          THEN MeshSlice(ModelVolume(model_volumes, id), m_layers[i].slice_z)
          ELSE {}]

\* slice_volumes_inner has sliced the volumes of an object of several layer ranges.
RangesSliced == VolumesSliced /\ Len(layer_ranges) > 1

SlicedAgain == job = "slice" /\ slice_pc = "sliced_again" /\ previous_run # <<>>

\* C19: a second run of slice_volumes with the volumes, the configuration and the
\* layer heights unchanged leaves the region slices of every layer as the first run
\* left them: the LayerRegions hold what was appended once, nothing of the first run.
C19_SecondRunSame ==
    SlicedAgain =>
        /\ Len(m_layers) = Len(previous_run)
        /\ \A l \in 1..Len(m_layers) :
              /\ m_layers[l].slice_z = previous_run[l].slice_z
              /\ m_layers[l].m_regions = previous_run[l].m_regions
              /\ m_layers[l].lslices = previous_run[l].lslices
              /\ \A r \in Regions : m_layers[l].appends[r] = 1

\* A second run on an object whose slices lie in several regions.
C19_Witness ==
    /\ SlicedAgain
    /\ \E l \in 1..Len(m_layers) :
          \A r \in Regions : m_layers[l].m_regions[r] # {}
    /\ m_layers = previous_run

\* ------------------------------------------------------------------------
\* Part VIII.  PerimeterGenerator::process_classic: onion layers and their nesting
\* ------------------------------------------------------------------------

\* Geometry is a section along one line. An ExPolygon is the ascending sequence of the
\* points where the line crosses its boundary: the first and the last are those of the
\* contour, the pairs between them those of the holes. A Polygon is a pair <<lo, hi>>.
MaxCoord == 15
MaxHoles == 2
MaxIslands == 2
MaxPerimeters == 3

ExPolygon_contour(e) == <<e[1], e[Len(e)]>>

ExPolygon_holes(e) == [k \in 1..((Len(e) \div 2) - 1) |-> <<e[2 * k], e[2 * k + 1]>>]

\* The stretches of the line inside the ExPolygons of `last`, from left to right, each
\* with the position of its ExPolygon, after the loss of a unit at either end.
RECURSIVE InsetStretches(_, _, _)
InsetStretches(last, n, k) ==
    IF n > Len(last) THEN <<>>
    ELSE IF 2 * k > Len(last[n]) THEN InsetStretches(last, n + 1, 1)
    ELSE (IF last[n][2 * k - 1] + 1 < last[n][2 * k] - 1
            THEN << [of |-> n, lo |-> last[n][2 * k - 1] + 1, hi |-> last[n][2 * k] - 1] >>
            ELSE <<>>)
         \o InsetStretches(last, n, k + 1)

\* The ExPolygons the stretches make up: a stretch is dropped, or it starts an
\* ExPolygon, or it goes on with the ExPolygon of the stretch kept before it, the gap
\* between the two being a hole. `built` is <<>> if the choice makes no ExPolygons.
RECURSIVE JoinStretches(_, _, _, _)
JoinStretches(stretches, choice, k, built) ==
    IF k > Len(stretches) THEN built
    ELSE LET w == stretches[k]
             out == built.out
         IN  IF choice[k] = "drop"
               THEN JoinStretches(stretches, choice, k + 1, built)
             ELSE IF choice[k] = "first"
               THEN JoinStretches(stretches, choice, k + 1,
                        [out |-> Append(out, <<w.lo, w.hi>>), of |-> w.of, ok |-> built.ok])
             ELSE JoinStretches(stretches, choice, k + 1,
                        IF out # <<>> /\ built.of = w.of
                          THEN [built EXCEPT !.out[Len(out)] = @ \o <<w.lo, w.hi>>]
                          ELSE [built EXCEPT !.ok = FALSE])

\* offset_ex(last, - distance) and offset2_ex(last, - distance - d, + d): what an inward
\* offset may return. Every stretch inside `last` loses a unit at either end, and what
\* is left of it may vanish as a whole. The stretches that remain of one ExPolygon of
\* `last` make up the ExPolygons of the result: a gap between two of them is a hole of
\* one ExPolygon or lies between two ExPolygons.
offset_ex(last) ==
    LET stretches == InsetStretches(last, 1, 1)
        results == { JoinStretches(stretches, choice, 1, [out |-> <<>>, of |-> 0, ok |-> TRUE]) :
                       choice \in [1..Len(stretches) -> {"drop", "first", "joined"}] }
    IN  { r.out : r \in { b \in results :
                             /\ b.ok
                             /\ Len(b.out) <= MaxIslands
                             /\ \A n \in 1..Len(b.out) :
                                   Len(ExPolygon_holes(b.out[n])) <= MaxHoles } }

\* Polygon::contains(point) and Polygon::first_point()
contains(polygon, point) == polygon[1] < point /\ point < polygon[2]

first_point(polygon) == polygon[1]

PerimeterGeneratorLoop(polygon, depth, is_contour) ==
    [polygon |-> polygon, depth |-> depth, is_contour |-> is_contour, children |-> <<>>]

\* The loops of one onion layer: of every ExPolygon the contour, and the holes.
OnionContours(offsets, i) ==
    [n \in 1..Len(offsets) |->
        PerimeterGeneratorLoop(ExPolygon_contour(offsets[n]), i, TRUE)]

RECURSIVE OnionHoles(_, _, _)
OnionHoles(offsets, i, n) ==
    IF n > Len(offsets) THEN <<>>
    ELSE [k \in 1..Len(ExPolygon_holes(offsets[n])) |->
             PerimeterGeneratorLoop(ExPolygon_holes(offsets[n])[k], i, FALSE)]
         \o OnionHoles(offsets, i, n + 1)

\* The islands process_classic is called with: one ExPolygon that spans the line.
Islands ==
    { [k \in 1..Cardinality(S) |->
          CHOOSE x \in S : Cardinality({ y \in S : y < x }) = k - 1] :
        S \in { {0, MaxCoord} \cup T :
                  T \in { U \in SUBSET (1..(MaxCoord - 1)) :
                            Cardinality(U) \in { 2 * h : h \in 0..MaxHoles } } } }

\* process_classic has counted the perimeters of the island: loop_number is their
\* number less one, -1 for none.
NestInit ==
    /\ PipeIdle
    /\ job = "perimeters"
    /\ slice_pc \in {"offsets", "perimeters done"}
    /\ SliceDataIdle
    /\ ObjectIdle
    /\ collect = <<>>
    /\ AuxIdle
    /\ \E island \in Islands, loop_number \in (-1)..(MaxPerimeters - 1),
          has_gap_fill \in BOOLEAN :
          /\ slice_pc = IF loop_number >= 0 THEN "offsets" ELSE "perimeters done"
          /\ onion = [loop_number |-> loop_number, has_gap_fill |-> has_gap_fill,
                      last |-> <<island>>, i |-> 0,
                      contours |-> [d \in 1..(loop_number + 1) |-> <<>>],
                      holes |-> [d \in 1..(loop_number + 1) |-> <<>>],
                      recorded |-> {}, d |-> 0, idx |-> 1, entities |-> <<>>,
                      params |-> <<>>]

\* The loops with depth d: contours[d] and holes[d] of the source.
AtDepth(lists, d) == lists[d + 1]

\* One turn of the loop that calculates the onion shells: the next shell is offset from
\* the last one; an empty one ends the loop with the number of shells generated, one
\* past loop_number was for the gaps only, any other is recorded.
OnionStep ==
    /\ job = "perimeters"
    /\ slice_pc = "offsets"
    /\ \E offsets \in offset_ex(onion.last) :
          LET i == onion.i
              start == [onion EXCEPT !.d = 0, !.idx = 1]
          IN  IF offsets = <<>>
                THEN /\ onion' = [start EXCEPT !.loop_number = i - 1, !.last = <<>>]
                     /\ slice_pc' = "holes"
              ELSE IF i > onion.loop_number
                THEN /\ onion' = start
                     /\ slice_pc' = "holes"
              ELSE LET contours_i == OnionContours(offsets, i)
                       holes_i == OnionHoles(offsets, i, 1)
                       loops == contours_i \o holes_i
                       shell == [onion EXCEPT
                                   !.contours[i + 1] = contours_i,
                                   !.holes[i + 1] = holes_i,
                                   !.recorded = @ \cup { loops[k] : k \in 1..Len(loops) },
                                   !.last = offsets]
                   IN  IF i = onion.loop_number /\ ~onion.has_gap_fill
                         THEN /\ onion' = [shell EXCEPT !.d = 0, !.idx = 1]
                              /\ slice_pc' = "holes"
                         ELSE /\ onion' = [shell EXCEPT !.i = i + 1]
                              /\ slice_pc' = "offsets"
    /\ UNCHANGED <<job, model_volumes, layer_ranges, volume_slices, slices_by_region,
                   zs_complex, tasks, accesses, m_layers, segmentation, paint_input,
                   m_config, lslices_1st_layer, eps_initialized>>
    /\ UNCHANGED <<objVars, collect, auxVars, pipeVars>>

\* The first loop of `lists` at one of the depths `depths`, taken in their order, whose
\* polygon contains the point: <<t, j>>, or <<>> for none.
RECURSIVE FindParent(_, _, _)
FindParent(lists, depths, point) ==
    IF depths = <<>> THEN <<>>
    ELSE LET t == Head(depths)
             found == { j \in 1..Len(AtDepth(lists, t)) :
                          contains(AtDepth(lists, t)[j].polygon, point) }
         IN  IF found # {} THEN <<t, Min(found)>>
             ELSE FindParent(lists, Tail(depths), point)

\* for (t = from; t <= to; ++ t) and for (t = from; t >= to; -- t)
Upwards(from, to) == [k \in 1..(to - from + 1) |-> from + k - 1]

Downwards(from, to) == [k \in 1..(from - to + 1) |-> from - k + 1]

\* Variant: a hole is nested in a hole only.
HoleParent_holes_only(o, loop) ==
    LET hole == FindParent(o.holes, Upwards(loop.depth + 1, o.loop_number),
                           first_point(loop.polygon))
    IN  IF hole # <<>> THEN <<"holes">> \o hole ELSE <<>>

\* The parent of a hole: the hole loop that contains it, if any, of the depths below
\* its own the nearest; else the contour loop that contains it, the deepest.
HoleParent(o, loop) ==
    LET hole == FindParent(o.holes, Upwards(loop.depth + 1, o.loop_number),
                           first_point(loop.polygon))
        contour == FindParent(o.contours, Downwards(o.loop_number, 0),
                              first_point(loop.polygon))
    IN  IF hole # <<>> THEN <<"holes">> \o hole
        ELSE IF contour # <<>> THEN <<"contours">> \o contour
        ELSE <<>>

\* The parent of a contour: the contour loop that contains it, of the depths above its
\* own the nearest.
ContourParent(o, loop) ==
    LET contour == FindParent(o.contours, Downwards(loop.depth - 1, 0),
                              first_point(loop.polygon))
    IN  IF contour # <<>> THEN <<"contours">> \o contour ELSE <<>>

\* holes_d.erase(holes_d.begin() + i)
Erase(list, idx) == SubSeq(list, 1, idx - 1) \o SubSeq(list, idx + 1, Len(list))

\* candidate_parent.children.push_back(loop); the loop is erased from its list and the
\* cursor stays (-- i, then ++ i). A loop without a parent stays and the cursor moves on.
Nest(o, list, parent) ==
    LET loop == AtDepth(o[list], o.d)[o.idx]
        erased == [o EXCEPT ![list][o.d + 1] = Erase(@, o.idx)]
    IN  IF parent = <<>>
          THEN [o EXCEPT !.idx = @ + 1]
          ELSE [erased EXCEPT ![parent[1]][parent[2] + 1][parent[3]].children =
                                  Append(@, loop)]

\* nest loops: holes first. One turn of the loops over the depths and the holes.
NestHole ==
    /\ job = "perimeters"
    /\ slice_pc = "holes"
    /\ IF onion.d > onion.loop_number
         THEN /\ onion' = [onion EXCEPT !.d = onion.loop_number, !.idx = 1]
              /\ slice_pc' = "contours"
       ELSE IF onion.idx > Len(AtDepth(onion.holes, onion.d))
         THEN /\ onion' = [onion EXCEPT !.d = @ + 1, !.idx = 1]
              /\ UNCHANGED slice_pc
       ELSE /\ onion' = Nest(onion, "holes",
                             HoleParent(onion, AtDepth(onion.holes, onion.d)[onion.idx]))
            /\ UNCHANGED slice_pc
    /\ UNCHANGED <<job, model_volumes, layer_ranges, volume_slices, slices_by_region,
                   zs_complex, tasks, accesses, m_layers, segmentation, paint_input,
                   m_config, lslices_1st_layer, eps_initialized>>
    /\ UNCHANGED <<objVars, collect, auxVars, pipeVars>>

\* nest contour loops. One turn of the loops over the depths and the contours.
NestContour ==
    /\ job = "perimeters"
    /\ slice_pc = "contours"
    /\ IF onion.d < 1
         THEN /\ UNCHANGED onion
              /\ slice_pc' = "traverse"
       ELSE IF onion.idx > Len(AtDepth(onion.contours, onion.d))
         THEN /\ onion' = [onion EXCEPT !.d = @ - 1, !.idx = 1]
              /\ UNCHANGED slice_pc
       ELSE /\ onion' = Nest(onion, "contours",
                             ContourParent(onion,
                                 AtDepth(onion.contours, onion.d)[onion.idx]))
            /\ UNCHANGED slice_pc
    /\ UNCHANGED <<job, model_volumes, layer_ranges, volume_slices, slices_by_region,
                   zs_complex, tasks, accesses, m_layers, segmentation, paint_input,
                   m_config, lslices_1st_layer, eps_initialized>>
    /\ UNCHANGED <<objVars, collect, auxVars, pipeVars>>

\* traverse_loops_classic(loops) without thin walls, with one path for every loop and
\* the loops chained in the order of the list: every loop becomes an ExtrusionLoop; the
\* children of a contour go before it, those of a hole after it. Part XII has the
\* collection, the thin walls and the chain of one call.
RECURSIVE traverse_loops_classic(_)
traverse_loops_classic(loops) ==
    IF loops = <<>> THEN <<>>
    ELSE LET loop == Head(loops)
             eloop == PerimeterGeneratorLoop(loop.polygon, loop.depth, loop.is_contour)
             children == traverse_loops_classic(loop.children)
         IN  (IF loop.is_contour THEN children \o <<eloop>> ELSE <<eloop>> \o children)
             \o traverse_loops_classic(Tail(loops))

\* ExtrusionEntityCollection::reverse(), Polyline::reverse()
reverse(entities) == [k \in 1..Len(entities) |-> entities[Len(entities) + 1 - k]]

\* The parameters the order of the perimeters depends on.
ReverseParams == [external_perimeters_first : BOOLEAN, layer_id : 0..1, brim_width : 0..1]

\* The order is reversed for the brim only.
ReverseEntities_for_brim_only(params) ==
    \/ params.brim_width > 0 /\ params.external_perimeters_first
    \/ params.layer_id = 0 /\ params.brim_width > 0

\* params.config.external_perimeters_first ||
\* (params.layer_id == 0 && params.object_config.brim_width.value > 0)
ReverseEntities(params) ==
    \/ params.external_perimeters_first
    \/ params.layer_id = 0 /\ params.brim_width > 0

\* traverse_loops_classic(contours.front()), and the order reversed
Traverse ==
    /\ job = "perimeters"
    /\ slice_pc = "traverse"
    /\ \E params \in ReverseParams :
          LET entities == traverse_loops_classic(onion.contours[1]) IN
          onion' = [onion EXCEPT
                      !.params = params,
                      !.entities = IF ReverseEntities(params) THEN reverse(entities)
                                   ELSE entities]
    /\ slice_pc' = "perimeters done"
    /\ UNCHANGED <<job, model_volumes, layer_ranges, volume_slices, slices_by_region,
                   zs_complex, tasks, accesses, m_layers, segmentation, paint_input,
                   m_config, lslices_1st_layer, eps_initialized>>
    /\ UNCHANGED <<objVars, collect, auxVars, pipeVars>>

NestNext == OnionStep \/ NestHole \/ NestContour \/ Traverse

SpecNest == NestInit /\ [][NestNext]_vars

\* The loops were nested and traversed.
Traversed == job = "perimeters" /\ slice_pc = "perimeters done" /\ onion.loop_number >= 0

\* How often a loop is among the entities.
Emitted(loop) ==
    Cardinality({ k \in 1..Len(onion.entities) : onion.entities[k] = loop })

C24_LayersFormChain ==
    (job = "slice" /\ slice_pc \notin {"call", "slice_volumes", "slices_to_regions"}) =>
        \A i \in 1..Len(m_layers) :
            /\ m_layers[i].lower_layer = i - 1
            /\ m_layers[i].upper_layer = (IF i < Len(m_layers) THEN i + 1 ELSE 0)
            /\ i > 1 => m_layers[i - 1].slice_z < m_layers[i].slice_z

\* The object was sliced, its top layer was empty and deleted, and the layer below
\* it, which was linked to it, remains as the last one.
C24_Witness ==
    /\ job = "slice"
    /\ slice_pc = "sliced"
    /\ Len(object_layers) = Len(m_layers) + 1
    /\ Len(m_layers) >= 1
    /\ new_layers(object_layers)[Len(m_layers)].upper_layer = Len(m_layers) + 1
    /\ m_layers[Len(m_layers)].upper_layer = 0

\* C25: in apply_mm_segmentation the cursor over the sorted painted regions selects,
\* for every parent region (in region order) and every extruder whose mask overlaps
\* the parent, a painted region of exactly that parent region and that extruder; it
\* never moves backwards, never runs to the end and never selects another entry.
C25_CursorSelectsOwnEntry ==
    job = "paint" =>
        \A t \in DOMAIN tasks :
            LET selected == tasks[t].selected
                layer_range == layer_ranges[tasks[t].it_layer_range]
                painted_regions == layer_range.painted_regions
            IN  \A k \in 1..Len(selected) :
                  /\ selected[k].from <= selected[k].it
                  /\ selected[k].it <= Len(painted_regions)
                  /\ painted_regions[selected[k].it].extruder_id = selected[k].extruder_id
                  /\ layer_range.volume_regions[painted_regions[selected[k].it].parent].region
                       = selected[k].parent
                  /\ k > 1 =>
                        /\ selected[k - 1].it <= selected[k].from
                        /\ selected[k - 1].parent <= selected[k].parent
                        /\ selected[k - 1].parent = selected[k].parent
                             => selected[k - 1].extruder_id < selected[k].extruder_id

\* On one layer the cursor selected the painted region of the first extruder for the
\* first parent region and then, past the other entries of that parent, the painted
\* region of the second extruder for the second parent region.
C25_Witness ==
    /\ job = "paint"
    /\ \E t \in DOMAIN tasks :
          LET selected == tasks[t].selected IN
          /\ Len(selected) = 2
          /\ selected[1].parent < selected[2].parent
          /\ selected[1].extruder_id < selected[2].extruder_id
          /\ selected[1].it < selected[2].from
          /\ selected[2].from < selected[2].it

\* The ids slices_to_regions calls volume_slices_find_by_id with: the part of a layer
\* range of one volume region, whether or not a height lies in the range; the first
\* printable part at a height that is not complex; and, if any height is complex, the
\* volume of every volume region of every layer range.
LookedUpIds(lrs, z, vs) ==
    LET single == { lrs[i].volume_regions[1].model_volume.id :
                      i \in { j \in 1..Len(lrs) :
                                /\ Len(lrs[j].volume_regions) = 1
                                /\ is_model_part(lrs[j].volume_regions[1].model_volume) } }
        InRange(i, k) == /\ lrs[i].layer_height_range[1] <= z[k]
                         /\ z[k] < lrs[i].layer_height_range[2]
        several == { j \in 1..Len(lrs) : Len(lrs[j].volume_regions) > 1 }
        first == { lrs[i].volume_regions[idx_first_printable_region(lrs[i], z[k])].model_volume.id :
                     <<i, k>> \in { ik \in several \X (1..Len(z)) :
                                      /\ InRange(ik[1], ik[2])
                                      /\ ~complex(lrs[ik[1]], z[ik[2]])
                                      /\ idx_first_printable_region(lrs[ik[1]], z[ik[2]]) >= 1 } }
        any_complex == \E ik \in several \X (1..Len(z)) :
                          InRange(ik[1], ik[2]) /\ complex(lrs[ik[1]], z[ik[2]])
        all == UNION { { lrs[i].volume_regions[r].model_volume.id :
                           r \in 1..Len(lrs[i].volume_regions) } : i \in 1..Len(lrs) }
    IN  single \cup first \cup (IF any_complex THEN all ELSE {})

\* C26 as stated: every volume that slices_to_regions looks up by id has an entry in
\* the list of the sliced volumes, and the lower bound by id is that entry.
C26_AsStated ==
    VolumesSliced =>
        \A id \in LookedUpIds(layer_ranges, zs_from_layers(m_layers), volume_slices) :
            /\ \E k \in 1..Len(volume_slices) : volume_slices[k].volume_id = id
            /\ volume_slices[volume_slices_find_by_id(volume_slices, id)].volume_id = id

\* C23 as stated: the perimeter entity order of an island is reversed if and only if
\* a brim will be printed and "external perimeters first" is configured, or the layer
\* is the very first layer and a brim is configured.
C23_AsStated ==
    (Traversed /\ Len(onion.entities) >= 2) =>
        (onion.entities = reverse(traverse_loops_classic(onion.contours[1]))
            <=> \/ onion.params.brim_width > 0 /\ onion.params.external_perimeters_first
                \/ onion.params.layer_id = 0 /\ onion.params.brim_width > 0)

\* C23: the perimeter entity order of an island is reversed if and only if "external
\* perimeters first" is configured (with or without a brim), or the layer is the very
\* first layer and a brim is configured; otherwise it is the order of the traversal.
C23_ReversedIffExternalFirstOrBrim ==
    (Traversed /\ Len(onion.entities) >= 2) =>
        LET entities == traverse_loops_classic(onion.contours[1])
            reversed == \/ onion.params.external_perimeters_first
                        \/ onion.params.layer_id = 0 /\ onion.params.brim_width > 0
        IN  /\ reversed => onion.entities = reverse(entities)
            /\ ~reversed => onion.entities = entities
            /\ entities # reverse(entities)

\* "External perimeters first" without a brim on a layer above the first: the order of
\* three loops and more is the reverse of the traversal.
C23_Witness ==
    /\ Traversed
    /\ Len(onion.entities) >= 3
    /\ onion.params = [external_perimeters_first |-> TRUE, layer_id |-> 1, brim_width |-> 0]
    /\ onion.entities = reverse(traverse_loops_classic(onion.contours[1]))

\* ------------------------------------------------------------------------
\* Part IX.  generate_extra_perimeters_over_overhangs and sort_extra_perimeters
\* ------------------------------------------------------------------------
\* Lengths are in units of overhang_flow.scaled_spacing(). The extra perimeters of
\* an overhang are straight paths along the concentric rings of the overhang: ring r
\* lies r spacings inside the overhang, the lower slices lie at x <= 0.
MaxOverhangs == 2
MaxPaths == 3
NumRings == 3
NumX == 3
MaxRingPaths == 1

\* The distance between two neighbouring points of a ring.
XStep == 2

\* scaled(5.0): the longest move sort_extra_perimeters follows without a new search.
scaled_5 == 4

Points == { <<XStep * k, r>> : k \in 0..(NumX - 1), r \in 0..(NumRings - 1) }

RingPaths(r) == { <<a, b>> : a, b \in { p \in Points : p[2] = r } }

last_point(path) == path[Len(path)]

Abs(n) == IF n < 0 THEN -n ELSE n

\* (a - b).squaredNorm()
squaredNorm(a, b) == (a[1] - b[1]) * (a[1] - b[1]) + (a[2] - b[2]) * (a[2] - b[2])

\* ExtrusionPath::length() of a path of moves along one axis.
RECURSIVE length(_)
length(path) ==
    IF Len(path) < 2 THEN 0
    ELSE Abs(path[1][1] - path[2][1]) + Abs(path[1][2] - path[2][2]) + length(Tail(path))

\* The square of the distance of a point from a line along a ring.
DistanceFromLine(point, a, b) ==
    LET lo == IF a[1] < b[1] THEN a[1] ELSE b[1]
        hi == IF a[1] < b[1] THEN b[1] ELSE a[1]
        dx == IF point[1] < lo THEN lo - point[1]
              ELSE IF point[1] > hi THEN point[1] - hi ELSE 0
        dy == point[2] - a[2]
    IN  dx * dx + dy * dy

\* LinesDistancer::distance_from_lines<false>(point) < limit_distance, for the
\* limit extrusion_spacing * 1.5.
NearLines(point, path) ==
    \E k \in 1..(Len(path) - 1) : 4 * DistanceFromLine(point, path[k], path[k + 1]) < 9

paths_touch(path_one, path_two) ==
    \/ \E k \in 1..Len(path_one) : NearLines(path_one[k], path_two)
    \/ \E k \in 1..Len(path_two) : NearLines(path_two[k], path_one)

\* lower_layer_aabb_tree.distance_from_lines<true>(point) <= 0
OnLowerSlices(point) == point[1] <= 0

is_anchored(path) == OnLowerSlices(first_point(path)) \/ OnLowerSlices(last_point(path))

\* The overhang islands of one call: the area of the real overhang (0: none), the
\* area outside the convex hull of the anchoring, the total length of the contour of
\* the real overhang and the unsupported distance of detect_bridging_direction.
OverhangIslands ==
    { [real_overhang |-> 0, unbridgeable_area |-> 0, total_length |-> 0, unsupp_dist |-> 0] }
    \cup [real_overhang : {10}, unbridgeable_area : {1, 2}, total_length : {10},
          unsupp_dist : {1, 2}]

\* The test read the other way round: the overhang is left to the bridging where a
\* measure is not below its threshold.
IsBridgeable_negated(overhang) ==
    ~(/\ 10 * overhang.unbridgeable_area < 2 * overhang.real_overhang
      /\ 10 * overhang.unsupp_dist < overhang.total_length * 2)

\* unbridgeable_area < 0.2 * area(real_overhang) && unsupp_dist < total_length(real_overhang) * 0.2
IsBridgeable(overhang) ==
    /\ 10 * overhang.unbridgeable_area < 2 * overhang.real_overhang
    /\ 10 * overhang.unsupp_dist < overhang.total_length * 2

\* What the loop over continuation_loops can append to overhang_region: the paths
\* of ring after ring, at most n in all.
RECURSIVE PerimeterRings(_, _)
PerimeterRings(r, n) ==
    IF r >= NumRings \/ n = 0 THEN { <<>> }
    ELSE LET most == IF n < MaxRingPaths THEN n ELSE MaxRingPaths
             of_ring == UNION { [1..k -> RingPaths(r)] : k \in 0..most }
         IN  UNION { { ring \o rest : rest \in PerimeterRings(r + 1, n - Len(ring)) }
                     : ring \in of_ring }

\* std::stable_partition(overhang_region, is_anchored)
SelectPaths(paths, anchored) ==
    LET keep == { k \in 1..Len(paths) : is_anchored(paths[k]) = anchored }
        nth(n) == CHOOSE k \in keep : Cardinality({ j \in keep : j < k }) = n - 1
    IN  [n \in 1..Cardinality(keep) |-> paths[nth(n)]]

stable_partition(paths) == SelectPaths(paths, TRUE) \o SelectPaths(paths, FALSE)

\* The index sort_extra_perimeters marks a sorted path's dependencies with.
null_idx == 0

\* dependencies[path_idx]: the previous paths that path_idx touches.
InitialDependencies(extra_perims) ==
    [path_idx \in 1..Len(extra_perims) |->
        { prev_path_idx \in 1..(path_idx - 1) :
            paths_touch(extra_perims[path_idx], extra_perims[prev_path_idx]) }]

\* A pass that leaves the dependencies as they are.
RECURSIVE ProcessPass_not_turned(_, _)
ProcessPass_not_turned(st, path_idx) ==
    IF path_idx > Len(st.dependencies) THEN st
    ELSE IF st.processed[path_idx]
           \/ ~\E dep \in st.dependencies[path_idx] : st.processed[dep]
      THEN ProcessPass_not_turned(st, path_idx + 1)
    ELSE ProcessPass_not_turned(
            [st EXCEPT !.processed[path_idx] = TRUE, !.change = TRUE], path_idx + 1)

\* One pass over the unanchored paths: a path with a processed dependency is
\* processed, and its dependencies not processed yet depend on it from now on.
RECURSIVE ProcessPass(_, _)
ProcessPass(st, path_idx) ==
    IF path_idx > Len(st.dependencies) THEN st
    ELSE IF st.processed[path_idx]
           \/ ~\E dep \in st.dependencies[path_idx] : st.processed[dep]
      THEN ProcessPass(st, path_idx + 1)
    ELSE LET turned == { dep \in st.dependencies[path_idx] : ~st.processed[dep] }
         IN  ProcessPass(
               [dependencies |->
                   [k \in 1..Len(st.dependencies) |->
                       IF k = path_idx THEN st.dependencies[k] \ turned
                       ELSE IF k \in turned THEN st.dependencies[k] \cup {path_idx}
                       ELSE st.dependencies[k]],
                processed |-> [st.processed EXCEPT ![path_idx] = TRUE],
                change |-> TRUE],
               path_idx + 1)

\* The loop over i of sort_extra_perimeters: passes until one changes nothing.
RECURSIVE ProcessPasses(_, _, _)
ProcessPasses(st, index_of_first_unanchored, i) ==
    IF i > Len(st.dependencies) THEN st
    ELSE LET pass == ProcessPass([st EXCEPT !.change = FALSE], index_of_first_unanchored)
         IN  IF pass.change THEN ProcessPasses(pass, index_of_first_unanchored, i + 1)
             ELSE pass

\* The search for the path without dependencies whose end is the nearest to
\* current_point; dist -1 is std::numeric_limits<double>::max().
RECURSIVE NearestFree(_, _, _, _, _)
NearestFree(extra_perims, dependencies, current_point, path_idx, found) ==
    IF path_idx > Len(extra_perims) THEN found
    ELSE IF dependencies[path_idx] # {}
      THEN NearestFree(extra_perims, dependencies, current_point, path_idx + 1, found)
    ELSE LET dist_a == squaredNorm(first_point(extra_perims[path_idx]), current_point)
             dist_b == squaredNorm(last_point(extra_perims[path_idx]), current_point)
             a == IF found.dist = -1 \/ dist_a < found.dist
                    THEN [dist |-> dist_a, next_idx |-> path_idx, reverse |-> FALSE]
                    ELSE found
             b == IF dist_b < a.dist
                    THEN [dist |-> dist_b, next_idx |-> path_idx, reverse |-> TRUE]
                    ELSE a
         IN  NearestFree(extra_perims, dependencies, current_point, path_idx + 1, b)

\* The paths put together where one ends within two spacings of the next one's start.
RECURSIVE Reconnect(_, _)
Reconnect(sorted_paths, reconnected) ==
    IF sorted_paths = <<>> THEN reconnected
    ELSE LET path == Head(sorted_paths)
             n == Len(reconnected)
         IN  IF n > 0 /\ squaredNorm(last_point(reconnected[n].polyline),
                                     first_point(path.polyline)) < 4
               THEN Reconnect(Tail(sorted_paths),
                        [reconnected EXCEPT ![n] = [polyline |-> @.polyline \o path.polyline,
                                                      of |-> @.of \o path.of]])
               ELSE Reconnect(Tail(sorted_paths), Append(reconnected, path))

\* The paths longer than three spacings.
RECURSIVE Filter(_)
Filter(reconnected) ==
    IF reconnected = <<>> THEN <<>>
    ELSE (IF length(Head(reconnected).polyline) > 3 THEN <<Head(reconnected)>> ELSE <<>>)
         \o Filter(Tail(reconnected))

NoSort == [extra_perims |-> <<>>, index_of_first_unanchored |-> 0, dependencies |-> <<>>,
           current_point |-> <<0, 0>>, next_idx |-> null_idx, reverse |-> FALSE,
           sorted_paths |-> <<>>]

\* History of one overhang island: whether it got a list of paths, the paths of its
\* rings, what sort_extra_perimeters was called with, and the order of its sorted_paths.
Generated(emplaced, paths, extra_perims, index_of_first_unanchored) ==
    [emplaced |-> emplaced, paths |-> paths, extra_perims |-> extra_perims,
     index_of_first_unanchored |-> index_of_first_unanchored, sorted |-> <<>>]

ExtraInit ==
    /\ PipeIdle
    /\ SliceIdle
    /\ ObjectIdle
    /\ collect = <<>>
    /\ onion = <<>>
    /\ export = <<>>
    /\ skirt = <<>>
    /\ traversal = <<>>
    /\ \E n \in 1..MaxOverhangs : \E overhangs \in [1..n -> OverhangIslands] :
          extra = [pc |-> "overhang", overhangs |-> overhangs, idx |-> 1,
                   extra_perims |-> <<>>, generated |-> <<>>, sort |-> NoSort]

\* The paths generated so far in this call.
PathsGenerated ==
    LET RECURSIVE Count(_)
        Count(k) == IF k = 0 THEN 0 ELSE Len(extra.generated[k].paths) + Count(k - 1)
    IN  Count(Len(extra.generated))

\* One turn of the loop over the overhang islands, up to the call of
\* sort_extra_perimeters: an island without real overhang is passed over, a
\* bridgeable one gets an empty list of paths, any other the paths of its rings.
\* sort_extra_perimeters starts with the dependencies of the paths.
ExtraOverhang ==
    /\ extra.pc = "overhang"
    /\ extra.idx <= Len(extra.overhangs)
    /\ LET overhang == extra.overhangs[extra.idx] IN
       IF overhang.real_overhang = 0
         THEN extra' = [extra EXCEPT !.idx = @ + 1,
                           !.generated = Append(@, Generated(FALSE, <<>>, <<>>, 0))]
       ELSE IF IsBridgeable(overhang)
         THEN extra' = [extra EXCEPT !.idx = @ + 1,
                           !.extra_perims = Append(@, <<>>),
                           !.generated = Append(@, Generated(TRUE, <<>>, <<>>, 0))]
       ELSE \E overhang_region \in PerimeterRings(0, MaxPaths - PathsGenerated) :
              IF overhang_region = <<>>
                THEN extra' = [extra EXCEPT !.idx = @ + 1,
                                  !.extra_perims = Append(@, <<>>),
                                  !.generated = Append(@, Generated(TRUE, <<>>, <<>>, 0))]
              ELSE LET front == overhang_region[1]
                       first_overhang_is_closed_and_anchored ==
                           /\ first_point(front) = last_point(front)
                           /\ OnLowerSlices(first_point(front))
                       turned == IF first_overhang_is_closed_and_anchored
                                   THEN overhang_region ELSE reverse(overhang_region)
                       extra_perims == stable_partition(turned)
                       index_of_first_unanchored == Len(SelectPaths(turned, TRUE))
                       st == ProcessPasses(
                               [dependencies |-> InitialDependencies(extra_perims),
                                processed |-> [k \in 1..Len(extra_perims) |->
                                                  k <= index_of_first_unanchored],
                                change |-> FALSE],
                               index_of_first_unanchored + 1, index_of_first_unanchored + 1)
                   IN  extra' = [extra EXCEPT
                          !.pc = "sort",
                          !.generated = Append(@, Generated(TRUE, overhang_region, extra_perims,
                                                       index_of_first_unanchored)),
                          !.sort = [extra_perims |-> extra_perims,
                                    index_of_first_unanchored |-> index_of_first_unanchored,
                                    dependencies |-> st.dependencies,
                                    current_point |-> first_point(extra_perims[1]),
                                    next_idx |-> null_idx, reverse |-> FALSE,
                                    sorted_paths |-> <<>>]]
    /\ UNCHANGED <<pipeVars, sliceVars, objVars, collect, onion, export, skirt, traversal>>

\* while (true), next_idx == null_idx: the next path to print is searched among all
\* paths; with none left the paths are reconnected, the short ones dropped, and the
\* result replaces overhang_region.
SortFind ==
    /\ extra.pc = "sort"
    /\ extra.sort.next_idx = null_idx
    /\ LET s == extra.sort
           found == NearestFree(s.extra_perims, s.dependencies, s.current_point, 1,
                                [dist |-> -1, next_idx |-> null_idx, reverse |-> s.reverse])
       IN  IF found.next_idx = null_idx
             THEN extra' = [extra EXCEPT
                     !.pc = "overhang", !.idx = @ + 1,
                     !.extra_perims = Append(@, Filter(Reconnect(s.sorted_paths, <<>>))),
                     !.generated[Len(extra.generated)].sorted =
                         [k \in 1..Len(s.sorted_paths) |-> s.sorted_paths[k].of[1]],
                     !.sort = NoSort]
             ELSE extra' = [extra EXCEPT !.sort.next_idx = found.next_idx,
                                         !.sort.reverse = found.reverse]
    /\ UNCHANGED <<pipeVars, sliceVars, objVars, collect, onion, export, skirt, traversal>>

\* while (true), a valid next_idx: the path is added to the sorted paths, taken out
\* of the dependencies of the others, and the nearest free path is the next one
\* unless it is further than scaled(5.0).
SortAdd ==
    /\ extra.pc = "sort"
    /\ extra.sort.next_idx # null_idx
    /\ LET s == extra.sort
           path == IF s.reverse THEN reverse(s.extra_perims[s.next_idx])
                   ELSE s.extra_perims[s.next_idx]
           dependencies == [k \in 1..Len(s.dependencies) |->
                               (IF k = s.next_idx THEN s.dependencies[k] \cup {null_idx}
                                ELSE s.dependencies[k]) \ {s.next_idx}]
           found == NearestFree(s.extra_perims, dependencies, last_point(path), 1,
                                [dist |-> -1, next_idx |-> null_idx, reverse |-> s.reverse])
       IN  extra' = [extra EXCEPT
              !.sort.sorted_paths = Append(@, [polyline |-> path, of |-> <<s.next_idx>>]),
              !.sort.dependencies = dependencies,
              !.sort.current_point = last_point(path),
              !.sort.next_idx = IF found.dist = -1 \/ found.dist > scaled_5 * scaled_5
                                  THEN null_idx ELSE found.next_idx,
              !.sort.reverse = found.reverse]
    /\ UNCHANGED <<pipeVars, sliceVars, objVars, collect, onion, export, skirt, traversal>>

\* return {extra_perims, ...}
ExtraReturn ==
    /\ extra.pc = "overhang"
    /\ extra.idx > Len(extra.overhangs)
    /\ extra' = [extra EXCEPT !.pc = "returned"]
    /\ UNCHANGED <<pipeVars, sliceVars, objVars, collect, onion, export, skirt, traversal>>

ExtraNext == ExtraOverhang \/ SortFind \/ SortAdd \/ ExtraReturn

SpecExtra == ExtraInit /\ [][ExtraNext]_vars

\* The unsupported area of an island is below 20% of the area of its overhang and
\* its unsupported span below 20% of the length of the overhang's perimeter.
BelowBothThresholds(k) ==
    LET overhang == extra.overhangs[k] IN
    /\ 5 * overhang.unbridgeable_area < overhang.real_overhang
    /\ 5 * overhang.unsupp_dist < overhang.total_length

\* C21 as stated: extra perimeters are synthesized for an overhang island only if
\* both measures are below 20%, and for every other island none are generated.
C21_AsStated ==
    \A k \in 1..Len(extra.generated) :
        extra.generated[k].paths # <<>> => BelowBothThresholds(k)

\* C21: extra perimeters are synthesized for an overhang island only if its
\* unsupported area is NOT below 20% of the overhang area or its unsupported span is
\* NOT below 20% of the overhang's perimeter length; an island with both measures
\* below 20% (or without real overhang) gets no extra perimeters.
C21_ExtraPerimetersOnlyIfNotBridgeable ==
    \A k \in 1..Len(extra.generated) :
        /\ extra.generated[k].paths # <<>> => ~BelowBothThresholds(k)
        /\ BelowBothThresholds(k) =>
              /\ extra.generated[k].paths = <<>>
              /\ extra.generated[k].emplaced
              /\ extra.pc # "sort" \/ k < Len(extra.generated)
        /\ extra.overhangs[k].real_overhang = 0 => ~extra.generated[k].emplaced

\* Two islands went through: the one below both thresholds got no extra perimeters,
\* the other, with too long an unsupported span only, got some.
C21_Witness ==
    /\ extra.pc = "returned"
    /\ Len(extra.extra_perims) = 2
    /\ \E k, n \in 1..2 :
          /\ BelowBothThresholds(k) /\ extra.generated[k].paths = <<>>
          /\ extra.extra_perims[k] = <<>>
          /\ 5 * extra.overhangs[n].unbridgeable_area < extra.overhangs[n].real_overhang
          /\ ~BelowBothThresholds(n) /\ extra.extra_perims[n] # <<>>

\* The islands whose paths sort_extra_perimeters has sorted, with the list it returned.
SortedIslands ==
    { k \in 1..Len(extra.generated) :
        /\ extra.generated[k].extra_perims # <<>>
        /\ extra.pc # "sort" \/ k < Len(extra.generated) }

\* The list of paths returned for island k: the k-th island that got a list.
Returned(k) ==
    extra.extra_perims[Cardinality({ j \in 1..k : extra.generated[j].emplaced })]

\* The indices of the paths of the returned list, in the order of their emission.
RECURSIVE EmittedOrder(_)
EmittedOrder(paths) ==
    IF paths = <<>> THEN <<>> ELSE Head(paths).of \o EmittedOrder(Tail(paths))

\* Where index p is in an order, 0 if nowhere.
Position(order, p) ==
    IF \E n \in 1..Len(order) : order[n] = p
      THEN CHOOSE n \in 1..Len(order) : order[n] = p ELSE 0

Touches(g, p, q) == p # q /\ paths_touch(g.extra_perims[p], g.extra_perims[q])

\* The paths reached from the anchored ones along touching paths.
RECURSIVE ReachedFrom(_, _)
ReachedFrom(g, reached) ==
    LET more == { p \in 1..Len(g.extra_perims) :
                    p \notin reached /\ \E q \in reached : Touches(g, p, q) }
    IN  IF more = {} THEN reached ELSE ReachedFrom(g, reached \cup more)

Anchored(g) == 1..g.index_of_first_unanchored

\* C22 as stated: the order of the returned paths is such that no unanchored path
\* is emitted before an anchored path.
C22_AsStated ==
    \A k \in SortedIslands :
        LET g == extra.generated[k]
            order == EmittedOrder(Returned(k))
        IN  \A m, n \in 1..Len(order) :
              (order[n] \in Anchored(g) /\ order[m] \notin Anchored(g)) => n < m

\* C22: sort_extra_perimeters sorts every path once and emits the paths in that
\* order; an anchored path is sorted after the anchored paths before it which it
\* touches, an unanchored path reached from the anchored ones along touching paths
\* after one such path that it touches, and any other unanchored path after the
\* unreached paths before it which it touches. (An unanchored path may be emitted
\* before an anchored path.)
C22_SortedAfterDependencies ==
    \A k \in SortedIslands :
        LET g == extra.generated[k]
            all == 1..Len(g.extra_perims)
            reached == ReachedFrom(g, Anchored(g))
            at(p) == Position(g.sorted, p)
            order == EmittedOrder(Returned(k))
        IN  /\ Len(g.sorted) = Len(g.extra_perims)
            /\ \A p \in all : at(p) > 0
            /\ \A p \in Anchored(g) : \A q \in 1..(p - 1) : Touches(g, p, q) => at(q) < at(p)
            /\ \A p \in reached \ Anchored(g) :
                  \E q \in reached : Touches(g, p, q) /\ at(q) < at(p)
            /\ \A p \in all \ reached :
                  \A q \in 1..(p - 1) : Touches(g, p, q) => at(q) < at(p)
            /\ \A m, n \in 1..Len(order) :
                  m < n => 0 < at(order[m]) /\ at(order[m]) < at(order[n])

\* An unanchored path is emitted after an anchored one that it touches and before
\* another anchored one.
C22_Witness ==
    \E k \in SortedIslands :
        LET g == extra.generated[k]
            order == EmittedOrder(Returned(k))
        IN  \E u, a, b \in 1..Len(order) :
              /\ a < u /\ u < b
              /\ order[u] \notin Anchored(g)
              /\ order[a] \in Anchored(g) /\ order[b] \in Anchored(g)
              /\ Touches(g, order[u], order[a])

\* ======================================================================================
\* Part X: GCodeGenerator::do_export
\* ======================================================================================

\* The pieces of output that _do_export writes one after the other.
NumChunks == 3

\* do_export is called at most this often for one output path.
MaxCalls == 2

\* No file at a path.
NoFile == <<>>

\* A file holds the run of do_export that wrote it (0: an earlier session) and the pieces
\* it got.
OldFile == [run |-> 0, chunks |-> NumChunks]

\* boost::nowide::remove(path) that leaves the file in place: do_export would not see it.
remove_kept(file) == file

\* boost::nowide::remove(path): no file is at the path any more.
remove(file) == NoFile

ExportInit ==
    /\ PipeIdle
    /\ SliceIdle
    /\ ObjectIdle
    /\ collect = <<>>
    /\ onion = <<>>
    /\ extra = <<>>
    /\ skirt = <<>>
    /\ traversal = <<>>
    /\ \E enabled \in BOOLEAN : \E state \in {"FRESH", "INVALIDATED", "DONE"} :
       \E path \in {NoFile, OldFile} :
          export = [pc |-> "call", run |-> 1, enabled |-> enabled, state |-> state,
                    path |-> path, path_tmp |-> NoFile, removed |-> NoFile,
                    written |-> 0, is_error |-> FALSE, failed_templates |-> FALSE,
                    early |-> FALSE, error |-> "none"]

\* do_export up to the try block: it returns at once if the step is disabled, or done
\* with the file in place; else the step is started, the old file removed and the
\* temporary file opened, or the export fails if it cannot be opened.
DoExportCall ==
    /\ export.pc = "call"
    /\ IF ~export.enabled \/ (export.state = "DONE" /\ export.path # NoFile)
         THEN export' = [export EXCEPT !.pc = "returned", !.early = TRUE]
         ELSE \E is_open \in BOOLEAN :
                export' = [export EXCEPT
                    !.state = "STARTED",
                    !.removed = export.path,
                    !.path = remove(export.path),
                    !.path_tmp = IF is_open THEN [run |-> export.run, chunks |-> 0]
                                 ELSE export.path_tmp,
                    !.pc = IF is_open THEN "_do_export" ELSE "threw",
                    !.error = IF is_open THEN "none" ELSE "Cannot open the file for writing"]
    /\ UNCHANGED <<pipeVars, sliceVars, objVars, collect, onion, extra, skirt, traversal>>

\* One piece of _do_export: it is written, or it is written with the report of a failed
\* custom G-code template, or the write fails and the stream remembers the error, or an
\* exception (cancellation, a runtime error) is thrown: the handler closes and removes
\* the temporary file and throws the exception on.
DoExportWrite ==
    /\ export.pc = "_do_export"
    /\ export.written < NumChunks
    /\ \E outcome \in {"written", "failed template", "write error",
                       "CanceledException", "RuntimeError"} :
          export' =
            IF outcome \in {"CanceledException", "RuntimeError"}
              THEN [export EXCEPT !.pc = "threw", !.error = outcome,
                                  !.path_tmp = remove(export.path_tmp)]
              ELSE [export EXCEPT
                      !.written = export.written + 1,
                      !.path_tmp.chunks = IF outcome = "write error" \/ export.is_error
                                            THEN export.path_tmp.chunks
                                            ELSE export.path_tmp.chunks + 1,
                      !.is_error = export.is_error \/ outcome = "write error",
                      !.failed_templates = export.failed_templates
                                             \/ outcome = "failed template"]
    /\ UNCHANGED <<pipeVars, sliceVars, objVars, collect, onion, extra, skirt, traversal>>

\* The end of the try block: after the flush an error of the stream removes the
\* temporary file and fails the export; else the file is closed.
DoExportFlush ==
    /\ export.pc = "_do_export"
    /\ export.written = NumChunks
    /\ \E flush_error \in BOOLEAN :
          export' =
            IF export.is_error \/ flush_error
              THEN [export EXCEPT !.pc = "threw", !.error = "Is the disk full?",
                                  !.is_error = TRUE,
                                  !.path_tmp = remove(export.path_tmp)]
              ELSE [export EXCEPT !.pc = "closed"]
    /\ UNCHANGED <<pipeVars, sliceVars, objVars, collect, onion, extra, skirt, traversal>>

\* do_export after the file is closed: failed templates fail the export and leave the
\* temporary file for inspection; else the file is renamed, which may fail, and only
\* then the step is set done.
DoExportFinish ==
    /\ export.pc = "closed"
    /\ IF export.failed_templates
         THEN export' = [export EXCEPT !.pc = "threw", !.error = "PlaceholderParserError"]
         ELSE \E renamed \in BOOLEAN :
                export' =
                  IF renamed
                    THEN [export EXCEPT !.path = export.path_tmp, !.path_tmp = NoFile,
                                        !.state = "DONE", !.pc = "returned"]
                    ELSE [export EXCEPT !.pc = "threw",
                                        !.error = "Failed to rename the output G-code file"]
    /\ UNCHANGED <<pipeVars, sliceVars, objVars, collect, onion, extra, skirt, traversal>>

\* The next export to the same path, by a new GCodeGenerator: in between the step may
\* have been invalidated and the file may have gone.
DoExportAgain ==
    /\ export.pc \in {"returned", "threw"}
    /\ export.run < MaxCalls
    /\ \E invalidated \in BOOLEAN : \E gone \in BOOLEAN :
          export' = [export EXCEPT
              !.pc = "call", !.run = export.run + 1,
              !.state = IF invalidated THEN "INVALIDATED" ELSE export.state,
              !.path = IF gone THEN NoFile ELSE export.path,
              !.removed = NoFile, !.written = 0, !.is_error = FALSE,
              !.failed_templates = FALSE, !.early = FALSE, !.error = "none"]
    /\ UNCHANGED <<pipeVars, sliceVars, objVars, collect, onion, extra, skirt, traversal>>

ExportNext ==
    DoExportCall \/ DoExportWrite \/ DoExportFlush \/ DoExportFinish \/ DoExportAgain

SpecExport == ExportInit /\ [][ExportNext]_vars

MaxSkirtLoops == 4

\* The extruders of the printer.
MaxTools == 3

\* The layers of a run.
MaxSkirtLayers == 2

\* layer_tools.extruders: the extruders planned for a layer, in ascending order.
ToolLists ==
    { CHOOSE f \in [1..Cardinality(S) -> S] : \A a, b \in 1..Cardinality(S) : a < b => f[a] < f[b] :
        S \in (SUBSET (1..MaxTools)) \ {{}} }

\* skirt_loops_per_extruder_all_printing: the map from the extruder to the loops
\* [first, second) it prints, filled by the loop over i in steps of lines_per_extruder.
skirt_loops_per_extruder_all_printing(n_loops, extruders) ==
    LET n_tools == Len(extruders)
        lines_per_extruder == (n_loops + n_tools - 1) \div n_tools
        RECURSIVE Fill(_, _)
        Fill(out, i) ==
            IF ~(i < n_loops) THEN out
            ELSE Fill([e \in DOMAIN out \cup {extruders[(i \div lines_per_extruder) + 1]} |->
                          IF e = extruders[(i \div lines_per_extruder) + 1]
                            THEN <<i, Min({i + lines_per_extruder, n_loops})>>
                            ELSE out[e]],
                      i + lines_per_extruder)
    IN  Fill(<<>>, 0)

SkirtInit ==
    /\ PipeIdle
    /\ SliceIdle
    /\ ObjectIdle
    /\ collect = <<>>
    /\ onion = <<>>
    /\ extra = <<>>
    /\ export = <<>>
    /\ traversal = <<>>
    /\ \E n_loops \in 0..MaxSkirtLoops : \E skirt_height \in 1..MaxSkirtLayers :
       \E has_infinite_skirt \in BOOLEAN : \E n \in 1..MaxSkirtLayers :
       \E layers \in [1..n -> [extruders : ToolLists, has_skirt : BOOLEAN]] :
          skirt = [n_loops |-> n_loops, has_skirt |-> n_loops > 0,
                   skirt_height |-> skirt_height,
                   has_infinite_skirt |-> has_infinite_skirt,
                   layers |-> layers, layer |-> 1, skirt_done |-> <<>>, calls |-> <<>>]

\* process_layer of the first layer: make_skirt_loops_per_extruder_1st_layer. The
\* print_z of a layer is its place in the list.
SkirtFirstLayer ==
    /\ skirt # <<>>
    /\ skirt.layer = 1
    /\ LET layer_tools == skirt.layers[1]
           extrude == /\ skirt.skirt_done = <<>>
                      /\ skirt.has_skirt
                      /\ skirt.n_loops # 0
                      /\ layer_tools.has_skirt
       IN  skirt' = [skirt EXCEPT
               !.layer = 2,
               !.skirt_done = IF extrude THEN Append(skirt.skirt_done, 1)
                              ELSE skirt.skirt_done,
               !.calls = Append(skirt.calls,
                   [layer |-> 1,
                    skirt_loops_per_extruder |->
                        IF extrude
                          THEN skirt_loops_per_extruder_all_printing(
                                   skirt.n_loops, layer_tools.extruders)
                          ELSE <<>>])]
    /\ UNCHANGED <<pipeVars, sliceVars, objVars, collect, onion, extra, export, traversal>>

\* process_layer of any other layer: make_skirt_loops_per_extruder_other_layers.
SkirtOtherLayer ==
    /\ skirt # <<>>
    /\ skirt.layer > 1
    /\ skirt.layer <= Len(skirt.layers)
    /\ LET layer_tools == skirt.layers[skirt.layer]
           valid == /\ skirt.skirt_done # <<>>
                    /\ skirt.skirt_done[Len(skirt.skirt_done)] < skirt.layer
           extrude == /\ skirt.has_skirt
                      /\ skirt.n_loops # 0
                      /\ layer_tools.has_skirt
                      /\ \/ Len(skirt.skirt_done) < skirt.skirt_height
                         \/ skirt.has_infinite_skirt
                      /\ valid
       IN  skirt' = [skirt EXCEPT
               !.layer = skirt.layer + 1,
               !.skirt_done = IF extrude THEN Append(skirt.skirt_done, skirt.layer)
                              ELSE skirt.skirt_done,
               !.calls = Append(skirt.calls,
                   [layer |-> skirt.layer,
                    skirt_loops_per_extruder |->
                        IF extrude
                          THEN skirt_loops_per_extruder_all_printing(
                                   skirt.n_loops, layer_tools.extruders)
                          ELSE <<>>])]
    /\ UNCHANGED <<pipeVars, sliceVars, objVars, collect, onion, extra, export, traversal>>

SkirtNext == SkirtFirstLayer \/ SkirtOtherLayer

SpecSkirt == SkirtInit /\ [][SkirtNext]_vars

\* C30 as stated: on a layer where the skirt is extruded and the skirt has at least as
\* many loops as the layer has extruders, every extruder of the layer gets a range of
\* loops that is not empty, and the ranges are disjoint and cover all loops.
C30_AsStated ==
    skirt # <<>> =>
        \A k \in 1..Len(skirt.calls) :
            LET out == skirt.calls[k].skirt_loops_per_extruder
                extruders == skirt.layers[skirt.calls[k].layer].extruders
                Loops(e) == { l \in 0..(skirt.n_loops - 1) : out[e][1] <= l /\ l < out[e][2] }
            IN  (out # <<>> /\ skirt.n_loops >= Len(extruders)) =>
                   /\ \A j \in 1..Len(extruders) :
                         extruders[j] \in DOMAIN out /\ Loops(extruders[j]) # {}
                   /\ \A e, f \in DOMAIN out : e # f => Loops(e) \cap Loops(f) = {}
                   /\ UNION { Loops(e) : e \in DOMAIN out } = 0..(skirt.n_loops - 1)

\* ======================================================================================
\* Part XII: one call of traverse_loops_classic
\* ======================================================================================

\* The loops of one call.
MaxLoops == 3

\* The thin walls of one call.
MaxThinWalls == 2

\* All orders of the numbers 1..n.
Orders(n) == { f \in [1..n -> 1..n] : \A a, b \in 1..n : a # b => f[a] # f[b] }

\* A loop of the call: with overhang detection its paths are the parts of the polygon
\* inside and outside of the lower slices, and both lists may be empty.
TraversalLoops(n) == [1..n -> [is_contour : BOOLEAN, paths_empty : BOOLEAN]]

TraversalInit ==
    /\ PipeIdle
    /\ SliceIdle
    /\ ObjectIdle
    /\ collect = <<>>
    /\ onion = <<>>
    /\ extra = <<>>
    /\ export = <<>>
    /\ skirt = <<>>
    /\ \E n \in 0..MaxLoops : \E loops \in TraversalLoops(n) :
       \E overhangs \in BOOLEAN : \E thin_walls \in 0..MaxThinWalls :
          traversal = [pc |-> "loops", loops |-> loops, overhangs |-> overhangs,
                       thin_walls |-> thin_walls, i |-> 1, coll |-> <<>>,
                       chain |-> <<>>, k |-> 1, out |-> <<>>]

\* One turn of the loop over the loops: with overhang detection a loop without paths is
\* passed over; any other loop is appended to the collection as an ExtrusionLoop.
TraversalLoop ==
    /\ traversal.pc = "loops"
    /\ traversal.i <= Len(traversal.loops)
    /\ LET loop == traversal.loops[traversal.i] IN
       traversal' = [traversal EXCEPT
           !.i = traversal.i + 1,
           !.coll = IF traversal.overhangs /\ loop.paths_empty
                      THEN traversal.coll
                      ELSE Append(traversal.coll,
                                  [entity |-> "ExtrusionLoop", of |-> traversal.i])]
    /\ UNCHANGED <<pipeVars, sliceVars, objVars, collect, onion, extra, export, skirt>>

\* After the loops the thin walls are appended to the collection and cleared, and
\* chain_extrusion_entities gives an order of all entities of the collection.
TraversalChain ==
    /\ traversal.pc = "loops"
    /\ traversal.i > Len(traversal.loops)
    /\ LET coll == traversal.coll
                   \o [w \in 1..traversal.thin_walls |-> [entity |-> "thin wall", of |-> w]]
       IN  \E order \in Orders(Len(coll)) :
              traversal' = [traversal EXCEPT
                  !.pc = "chain", !.coll = coll, !.thin_walls = 0,
                  !.chain = [k \in 1..Len(coll) |-> order[k] - 1]]
    /\ UNCHANGED <<pipeVars, sliceVars, objVars, collect, onion, extra, export, skirt>>

\* One turn of the loop over the chain: an index at or above loops.size() is taken for
\* a thin wall; any other index idx for an ExtrusionLoop of loops[idx], whose children
\* are traversed and which is turned by its orientation. A static_cast of an entity
\* that is no ExtrusionLoop reads an orientation that is not there.
TraversalEmit ==
    /\ traversal.pc = "chain"
    /\ traversal.k <= Len(traversal.chain)
    /\ LET idx == traversal.chain[traversal.k]
           entity == traversal.coll[idx + 1]
       IN  IF idx >= Len(traversal.loops)
             THEN traversal' = [traversal EXCEPT
                      !.k = traversal.k + 1,
                      !.out = Append(traversal.out,
                                     [idx |-> idx, as |-> "thin wall", entity |-> entity,
                                      children |-> 0, reverse_loop |-> FALSE])]
             ELSE \E reverse_loop \in
                        IF entity.entity = "ExtrusionLoop" THEN {FALSE} ELSE BOOLEAN :
                    traversal' = [traversal EXCEPT
                      !.k = traversal.k + 1,
                      !.out = Append(traversal.out,
                                     [idx |-> idx, as |-> "ExtrusionLoop", entity |-> entity,
                                      children |-> idx + 1, reverse_loop |-> reverse_loop])]
    /\ UNCHANGED <<pipeVars, sliceVars, objVars, collect, onion, extra, export, skirt>>

TraversalReturn ==
    /\ traversal.pc = "chain"
    /\ traversal.k > Len(traversal.chain)
    /\ traversal' = [traversal EXCEPT !.pc = "returned"]
    /\ UNCHANGED <<pipeVars, sliceVars, objVars, collect, onion, extra, export, skirt>>

TraversalNext == TraversalLoop \/ TraversalChain \/ TraversalEmit \/ TraversalReturn

SpecTraversal == TraversalInit /\ [][TraversalNext]_vars

\* C29 as stated: every chained index below the number of the loops is the index of the
\* ExtrusionLoop built from the loop of that index, whose children are traversed with
\* it, and every index at or above that number is the index of a thin wall, also when
\* a loop without paths was passed over.
C29_AsStated ==
    traversal # <<>> =>
        \A k \in 1..Len(traversal.out) :
            LET o == traversal.out[k] IN
            IF o.idx < Len(traversal.loops)
              THEN /\ o.entity = [entity |-> "ExtrusionLoop", of |-> o.idx + 1]
                   /\ o.children = o.entity.of
              ELSE o.entity.entity = "thin wall"

====
